---- MODULE Spec2Model ----
(***************************************************************************)
(* A model of the boxdrop file storage and sharing server                  *)
(* (src/go/dropbox/updated_code/lib/support/server and                     *)
(*  src/dropbox/updated_code/lib/support/server).                          *)
(*                                                                         *)
(* The persistent store is four SQLite tables.  Each table is a sequence   *)
(* of rows in rowid order (files, shared and directories have an           *)
(* AUTOINCREMENT id and no UNIQUE constraint, so duplicates are possible   *)
(* and QueryRow returns the row with the lowest rowid that matches).  The  *)
(* blob area (basedir) is a function from checksum to the bytes stored.    *)
(*                                                                         *)
(* A Go string that may hold '/' is modelled by strings.Split(s, "/"): a   *)
(* non-empty sequence of '/'-free segments.  "" is <<"">>, "/" is          *)
(* <<"", "">>, "/d/" is <<"", "d", "">>, "f" is <<"f">>, "/d/f" is         *)
(* <<"", "d", "f">>.  The map is a bijection, so every string operation of *)
(* the code (concatenation, HasPrefix, LastIndex, slicing at a slash) is   *)
(* modelled exactly on the segment sequence.                               *)
(*                                                                         *)
(* A handler is modelled as a step function on (world, local): one step    *)
(* per store or file-system access made by the handler.  Run iterates the  *)
(* steps to completion, which is the handler executed alone; the           *)
(* interleaved specifications execute one step at a time.                  *)
(***************************************************************************)
EXTENDS Integers, Sequences, FiniteSets, TLC

VARIABLES users, directories, files, shared, blobs, now, procs

vars == <<users, directories, files, shared, blobs, now, procs>>

-----------------------------------------------------------------------------
(* Bounds of the model *)

\* most rows the files table may hold before an upload is started
MaxFiles == 2
\* most rows the shared table may hold before a sharefile is started
MaxShared == 2
\* most directories made by mkdir before another mkdir is started
MaxDirs == 1

-----------------------------------------------------------------------------
(* Go strings as segment sequences *)

EmptyStr == <<"">>
Slash == <<"", "">>

Last(s) == s[Len(s)]
Front(s) == SubSeq(s, 1, Len(s) - 1)

\* a + b on Go strings
Cat(a, b) == Front(a) \o <<Last(a) \o Head(b)>> \o Tail(b)

\* a '/'-free string (a file name, a directory name, a user name)
Str(name) == <<name>>

\* path[len(path)-1:] == "/"
EndsWithSlash(path) == Len(path) >= 2 /\ Last(path) = ""

\* strings.HasPrefix(path, "/shared/")
HasSharedPrefix(path) == Len(path) >= 3 /\ path[1] = "" /\ path[2] = "shared"

\* the characters the regular expressions accept: every segment of the model
\* is made of letters, except the dot segments
Alnum(seg) == seg \notin {"", ".", ".."}

validateDirname(dirname) == Len(dirname) = 1 /\ Alnum(dirname[1])

validateFilename(filename) == Len(filename) = 1 /\ filename[1] # ""

validateUsername(username) == Alnum(username)

\* the e-mail addresses of the model are accepted by the regular expression,
\* except the one without '@'
validateEmail(email) == email \notin {"", "nomail"}

\* "" is (true, nil); the passwords of the model have 8 to 24 characters of
\* three classes, except the short one
validatePassword(password) ==
    IF password \in {"", "short"} THEN "Passwords must be 8-24 characters" ELSE ""

checkIfAbsolutePath(path) == path # EmptyStr /\ Len(path) >= 2 /\ path[1] = ""

checkIfCurrDirIsInSharedFolder(curr_dir) == HasSharedPrefix(curr_dir)

\* strings.Split(curr_dir, "/")[2]
getSharedOwner(curr_dir) == curr_dir[3]

RECURSIVE handleDotsFrom(_, _, _)
\* handleDots' loop without the test that keeps ".." inside the root directory
handleDotsFromAboveRoot(dirs, i, out_path) ==
    IF i > Len(dirs) THEN out_path
    ELSE LET dir == dirs[i] IN
         IF dir = ".."
         THEN handleDotsFrom(dirs, i + 1, Front(Front(out_path)) \o <<"">>)
         ELSE IF dir # "." /\ dir # ""
              THEN handleDotsFrom(dirs, i + 1, Cat(out_path, <<dir, "">>))
              ELSE handleDotsFrom(dirs, i + 1, out_path)

handleDotsFrom(dirs, i, out_path) ==
    IF i > Len(dirs) THEN out_path
    ELSE LET dir == dirs[i] IN
         IF dir = ".."
         THEN IF out_path # Slash
              THEN handleDotsFrom(dirs, i + 1, Front(Front(out_path)) \o <<"">>)
              ELSE handleDotsFrom(dirs, i + 1, out_path)
         ELSE IF dir # "." /\ dir # ""
              THEN handleDotsFrom(dirs, i + 1, Cat(out_path, <<dir, "">>))
              ELSE handleDotsFrom(dirs, i + 1, out_path)

handleDots(path) == handleDotsFrom(path, 1, Slash)

\* the parent cut before its closing slash
getParentWithoutSlash(path) ==
    IF path = EmptyStr
    THEN [parent |-> EmptyStr, child |-> EmptyStr, err |-> "Cannot give empty string as path"]
    ELSE IF ~EndsWithSlash(path)
    THEN [parent |-> EmptyStr, child |-> EmptyStr, err |-> "This path is not a directory"]
    ELSE IF path = Slash
    THEN [parent |-> EmptyStr, child |-> path, err |-> ""]
    ELSE IF Len(path) = 2
    THEN [parent |-> EmptyStr, child |-> path, err |-> ""]
    ELSE [parent |-> SubSeq(path, 1, Len(path) - 2),
          child |-> <<path[Len(path) - 1], "">>, err |-> ""]

getParentPathAndChildofDirectory(path) ==
    IF path = EmptyStr
    THEN [parent |-> EmptyStr, child |-> EmptyStr, err |-> "Cannot give empty string as path"]
    ELSE IF ~EndsWithSlash(path)
    THEN [parent |-> EmptyStr, child |-> EmptyStr, err |-> "This path is not a directory"]
    ELSE IF path = Slash
    THEN [parent |-> EmptyStr, child |-> path, err |-> ""]
    ELSE IF Len(path) = 2
    THEN [parent |-> EmptyStr, child |-> path, err |-> ""]
    ELSE [parent |-> SubSeq(path, 1, Len(path) - 2) \o <<"">>,
          child |-> <<path[Len(path) - 1], "">>, err |-> ""]

getParentPathAndChildofFile(path) ==
    IF path = EmptyStr
    THEN [parent |-> EmptyStr, child |-> EmptyStr, err |-> "Cannot give empty string as path"]
    ELSE IF EndsWithSlash(path)
    THEN [parent |-> EmptyStr, child |-> EmptyStr, err |-> "This path does not direct to a file"]
    ELSE IF Len(path) = 1
    THEN [parent |-> EmptyStr, child |-> path, err |-> ""]
    ELSE [parent |-> Front(path) \o <<"">>, child |-> <<Last(path)>>, err |-> ""]

-----------------------------------------------------------------------------
(* Primitives outside the repository *)

\* sha512 followed by hex.EncodeToString: a digest that identifies the bytes
makeFileChecksum(file_bytes) == "sha512-" \o file_bytes.data

\* bcrypt.GenerateFromPassword
bcryptHash(secret) == "bcrypt-" \o secret

\* bcrypt.CompareHashAndPassword(hash, secret) == nil
bcryptMatches(hash, secret) == hash = bcryptHash(secret)

\* a NULL int column (Scan of it into an int fails)
NullInt == -1
\* a NULL blob column
NullBlob == "NULL"
\* a NULL text column: no Go string
NullText == <<>>

-----------------------------------------------------------------------------
(* Rows and generic table operations *)

Idx(table, Match(_)) == {i \in DOMAIN table : Match(table[i])}

Count(table, Match(_)) == Cardinality(Idx(table, Match))

Min(S) == CHOOSE i \in S : \A j \in S : i <= j

\* DELETE FROM table WHERE Match
Delete(table, Match(_)) == SelectSeq(table, LAMBDA row : ~Match(row))

\* UPDATE table SET ... WHERE Match
Update(table, Match(_), Set(_)) ==
    [i \in DOMAIN table |-> IF Match(table[i]) THEN Set(table[i]) ELSE table[i]]

-----------------------------------------------------------------------------
(* users table *)

getNumUsersWithUsername(w, username) ==
    IF username \in DOMAIN w.users THEN 1 ELSE 0

\* "" is nil
validateUniqueUserByUsername(w, username) ==
    IF getNumUsersWithUsername(w, username) # 1 THEN "Invalid username" ELSE ""

getCurrDir(w, username) ==
    IF validateUniqueUserByUsername(w, username) # ""
    THEN [curr_dir |-> EmptyStr, err |-> "Invalid username"]
    ELSE IF w.users[username].curr_dir = NullText
    THEN [curr_dir |-> EmptyStr, err |-> "sql: Scan error"]
    ELSE [curr_dir |-> w.users[username].curr_dir, err |-> ""]

getSessionTokenInfoByUsername(w, username) ==
    IF validateUniqueUserByUsername(w, username) # ""
    THEN [token |-> NullBlob, time |-> NullInt, err |-> "Invalid username"]
    ELSE IF w.users[username].session_token_last_access_time = NullInt
    THEN [token |-> NullBlob, time |-> NullInt, err |-> "sql: Scan error"]
    ELSE [token |-> w.users[username].session_token,
          time |-> w.users[username].session_token_last_access_time, err |-> ""]

removeSessionTokenInfoByUsername(w, username) ==
    IF validateUniqueUserByUsername(w, username) # ""
    THEN [w |-> w, err |-> "Invalid username"]
    ELSE [w |-> [w EXCEPT !.users[username].session_token = NullBlob,
                          !.users[username].session_token_last_access_time = NullInt],
          err |-> ""]

\* updateSessionTokenInfoByUsername leaving the last access time as it was
updateSessionTokenKeepsTime(w, username) ==
    IF validateUniqueUserByUsername(w, username) # ""
    THEN [w |-> w, err |-> "Invalid username"]
    ELSE [w |-> w, err |-> ""]

updateSessionTokenInfoByUsername(w, username) ==
    IF validateUniqueUserByUsername(w, username) # ""
    THEN [w |-> w, err |-> "Invalid username"]
    ELSE [w |-> [w EXCEPT !.users[username].session_token_last_access_time = w.now],
          err |-> ""]

removeUserRowByUsername(w, username) ==
    IF validateUniqueUserByUsername(w, username) # ""
    THEN [w |-> w, err |-> "Invalid username"]
    ELSE [w |-> [w EXCEPT !.users = [u \in DOMAIN w.users \ {username} |-> w.users[u]]],
          err |-> ""]

getNumUsersWithEmail(w, email) ==
    Cardinality({u \in DOMAIN w.users : w.users[u].email = email})

getNumUsersWithUsernameAndEmail(w, username, email) ==
    Cardinality({u \in DOMAIN w.users : u = username /\ w.users[u].email = email})

\* the most user rows before registration is refused
UsersLimit == 100

overUsersLimit(w) ==
    IF Cardinality(DOMAIN w.users) >= UsersLimit THEN "No more users can be registered" ELSE ""

\* the first of the two counts createNewUserPreEmail makes before its INSERT
createNewUserPreEmailUsername(w, username) ==
    IF getNumUsersWithUsername(w, username) # 0 THEN "Invalid username" ELSE ""

\* the second count
createNewUserPreEmailEmail(w, email) ==
    IF getNumUsersWithEmail(w, email) # 0 THEN "Invalid email" ELSE ""

\* INSERT INTO users; username is the PRIMARY KEY, the other columns stay NULL
createNewUserPreEmailInsert(w, email, username, password, salt, verification_code) ==
    IF username \in DOMAIN w.users
    THEN [w |-> w, err |-> "UNIQUE constraint failed: users.username"]
    ELSE [w |-> [w EXCEPT !.users =
                   [u \in DOMAIN w.users \cup {username} |->
                      IF u = username
                      THEN [email |-> email, ver_code |-> verification_code,
                            ver_code_creation_time |-> w.now, password |-> password,
                            salt |-> salt, session_token |-> NullBlob,
                            session_token_last_access_time |-> NullInt,
                            curr_dir |-> NullText]
                      ELSE w.users[u]]],
          err |-> ""]

validateUniqueUserByUsernameAndEmail(w, username, email) ==
    IF getNumUsersWithUsername(w, username) # 1 THEN "Invalid username"
    ELSE IF getNumUsersWithEmail(w, email) # 1 THEN "Invalid email"
    ELSE IF getNumUsersWithUsernameAndEmail(w, username, email) # 1
    THEN "Invalid username/email"
    ELSE ""

getUserPasswordByUsernameAndEmail(w, username, email) ==
    LET err == validateUniqueUserByUsernameAndEmail(w, username, email) IN
    IF err # "" THEN [password |-> "", err |-> err]
    ELSE [password |-> w.users[username].password, err |-> ""]

getUserPasswordByUsername(w, username) ==
    IF validateUniqueUserByUsername(w, username) # ""
    THEN [password |-> "", err |-> "Invalid username"]
    ELSE [password |-> w.users[username].password, err |-> ""]

\* a NULL ver_code_creation_time does not scan into an int
getVerCodeInfoByUsernameAndEmail(w, username, email) ==
    LET err == validateUniqueUserByUsernameAndEmail(w, username, email) IN
    IF err # "" THEN [ver_code |-> "", time |-> -1, err |-> err]
    ELSE IF w.users[username].ver_code_creation_time = NullInt
    THEN [ver_code |-> "", time |-> -1, err |-> "sql: Scan error"]
    ELSE [ver_code |-> w.users[username].ver_code,
          time |-> w.users[username].ver_code_creation_time, err |-> ""]

removeVerCodeInfoByUsernameAndEmail(w, username, email) ==
    LET err == validateUniqueUserByUsernameAndEmail(w, username, email) IN
    IF err # "" THEN [w |-> w, err |-> err]
    ELSE [w |-> [w EXCEPT !.users[username].ver_code = NullBlob,
                          !.users[username].ver_code_creation_time = NullInt],
          err |-> ""]

getSaltByUsername(w, username) ==
    IF validateUniqueUserByUsername(w, username) # ""
    THEN [salt |-> "", err |-> "Invalid username"]
    ELSE [salt |-> w.users[username].salt, err |-> ""]

removeUserRowByUsernameAndEmail(w, username, email) ==
    LET err == validateUniqueUserByUsernameAndEmail(w, username, email) IN
    IF err # "" THEN [w |-> w, err |-> err]
    ELSE [w |-> [w EXCEPT !.users = [u \in DOMAIN w.users \ {username} |-> w.users[u]]],
          err |-> ""]

\* session_token is the hash; the last access time is the time of creation
\* the UPDATE that leaves the token of an earlier login in place
createSessionTokenKeepsOld(w, username, session_token) ==
    IF validateUniqueUserByUsername(w, username) # ""
    THEN [w |-> w, err |-> "Invalid username"]
    ELSE IF w.users[username].session_token # NullBlob
    THEN [w |-> [w EXCEPT !.users[username].session_token_last_access_time = w.now],
          err |-> ""]
    ELSE [w |-> [w EXCEPT !.users[username].session_token = session_token,
                          !.users[username].session_token_last_access_time = w.now],
          err |-> ""]

createSessionTokenByUsername(w, username, session_token) ==
    IF validateUniqueUserByUsername(w, username) # ""
    THEN [w |-> w, err |-> "Invalid username"]
    ELSE [w |-> [w EXCEPT !.users[username].session_token = session_token,
                          !.users[username].session_token_last_access_time = w.now],
          err |-> ""]

\* password + salt
getSaltedPass(w, username, password) ==
    LET salt == getSaltByUsername(w, username) IN
    IF salt.err # "" THEN [salted_pass |-> "", err |-> salt.err]
    ELSE [salted_pass |-> password \o salt.salt, err |-> ""]

\* 60 * 5 seconds
time_diff == 300

\* checkSessionToken that refreshes the last-access time before it compares
checkSessionTokenRefreshesFirst(w, username, session_token) ==
    LET info == getSessionTokenInfoByUsername(w, username) IN
    IF info.err # "" THEN [w |-> w, err |-> info.err]
    ELSE IF info.time + time_diff < w.now
    THEN LET r == removeSessionTokenInfoByUsername(w, username) IN
         IF r.err # "" THEN r ELSE [w |-> r.w, err |-> "Session token expired."]
    ELSE IF ~bcryptMatches(info.token, session_token)
    THEN [w |-> updateSessionTokenInfoByUsername(w, username).w, err |-> "Incorrect password."]
    ELSE updateSessionTokenInfoByUsername(w, username)

\* checkSessionToken without the purge of an expired session
checkSessionTokenKeeps(w, username, session_token) ==
    LET info == getSessionTokenInfoByUsername(w, username) IN
    IF info.err # "" THEN [w |-> w, err |-> info.err]
    ELSE IF info.time + time_diff < w.now
    THEN [w |-> w, err |-> "Session token expired."]
    ELSE IF ~bcryptMatches(info.token, session_token)
    THEN [w |-> w, err |-> "Incorrect password."]
    ELSE updateSessionTokenInfoByUsername(w, username)

checkSessionToken(w, username, session_token) ==
    LET info == getSessionTokenInfoByUsername(w, username) IN
    IF info.err # "" THEN [w |-> w, err |-> info.err]
    ELSE IF info.time + time_diff < w.now
    THEN LET r == removeSessionTokenInfoByUsername(w, username) IN
         IF r.err # "" THEN r ELSE [w |-> r.w, err |-> "Session token expired."]
    ELSE IF ~bcryptMatches(info.token, session_token)
    THEN [w |-> w, err |-> "Incorrect password."]
    ELSE updateSessionTokenInfoByUsername(w, username)

-----------------------------------------------------------------------------
(* files table *)

countNumFileByChecksum(w, checksum) ==
    Count(w.files, LAMBDA row : row.checksum = checksum)

\* -1 with an error when the user does not exist
countNumFilesByUsernameAndFileInfo(w, username, filename, filepath) ==
    IF validateUniqueUserByUsername(w, username) # ""
    THEN [count |-> -1, err |-> "Invalid username"]
    ELSE [count |-> Count(w.files, LAMBDA row : row.username = username
                              /\ row.filename = filename /\ row.filepath = filepath),
          err |-> ""]

getChecksum(w, username, filename, filepath) ==
    LET hits == Idx(w.files, LAMBDA row : row.username = username
                        /\ row.filename = filename /\ row.filepath = filepath) IN
    IF validateUniqueUserByUsername(w, username) # ""
    THEN [checksum |-> "", err |-> "Invalid username"]
    ELSE IF hits = {}
    THEN [checksum |-> "", err |-> "sql: no rows in result set"]
    ELSE [checksum |-> w.files[Min(hits)].checksum, err |-> ""]

getFilesByUsernameAndCurrDir(w, username, curr_dir) ==
    IF validateUniqueUserByUsername(w, username) # ""
    THEN [files |-> {}, err |-> "Invalid username"]
    ELSE [files |-> Idx(w.files, LAMBDA row : row.username = username
                            /\ row.filepath = curr_dir),
          err |-> ""]

\* INSERT INTO files
uploadFile(w, username, filename, filepath, checksum) ==
    IF validateUniqueUserByUsername(w, username) # ""
    THEN [w |-> w, err |-> "Invalid username"]
    ELSE [w |-> [w EXCEPT !.files = Append(@, [username |-> username, filename |-> filename,
                                                filepath |-> filepath, checksum |-> checksum])],
          err |-> ""]

updateOwnerChecksum(w, username, filename, filepath, new_checksum) ==
    LET count_files == countNumFilesByUsernameAndFileInfo(w, username, filename, filepath)
        old_checksum == getChecksum(w, username, filename, filepath) IN
    IF validateUniqueUserByUsername(w, username) # ""
    THEN [w |-> w, err |-> "Invalid username"]
    ELSE IF count_files.count # 1
    THEN [w |-> w, err |-> "File does not exist"]
    ELSE IF old_checksum.err # ""
    THEN [w |-> w, err |-> old_checksum.err]
    ELSE [w |-> [w EXCEPT !.files = Update(@,
                     LAMBDA row : row.username = username /\ row.filename = filename
                                  /\ row.filepath = filepath
                                  /\ row.checksum = old_checksum.checksum,
                     LAMBDA row : [row EXCEPT !.checksum = new_checksum])],
          err |-> ""]

\* the size os.Stat reports for the blob of a checksum; -1 when os.Open fails
BlobSize(w, checksum) ==
    IF checksum \in DOMAIN w.blobs THEN w.blobs[checksum].size ELSE -1

RECURSIVE SumSizes(_, _, _)
SumSizes(w, rows, i) ==
    IF i > Len(rows) THEN 0 ELSE BlobSize(w, rows[i].checksum) + SumSizes(w, rows, i + 1)

\* the per-user cap on bytes
UserSizeLimit == 28000

\* the per-call ceiling on bytes
FileSizeLimit == 5600

overUserSizeLimit(w, username) ==
    LET mine == SelectSeq(w.files, LAMBDA row : row.username = username) IN
    IF \E i \in DOMAIN mine : mine[i].checksum \notin DOMAIN w.blobs
    THEN "open: no such file or directory"
    ELSE IF SumSizes(w, mine, 1) >= UserSizeLimit
    THEN "You cannot upload any more files"
    ELSE ""

-----------------------------------------------------------------------------
(* directories table *)

getNumDirectoriesByUsername(w, username, parent, child) ==
    Count(w.directories, LAMBDA row : row.username = username
                             /\ row.path = parent /\ row.name = child)

\* validateDirectoryExistsByUsername finding every directory
validateDirectoryAlwaysExists(w, username, parent, child) == ""

validateDirectoryExistsByUsername(w, username, parent, child) ==
    IF getNumDirectoriesByUsername(w, username, parent, child) # 1
    THEN "Directory does not exist" ELSE ""

getSubdirectoriesByUsernameAndCurrDir(w, username, curr_dir) ==
    IF validateUniqueUserByUsername(w, username) # ""
    THEN [dirs |-> <<>>, err |-> "Invalid username"]
    ELSE [dirs |-> SelectSeq(w.directories, LAMBDA row : row.username = username
                                                /\ row.path = curr_dir),
          err |-> ""]

\* INSERT INTO directories
InsertDirectory(w, username, path, name) ==
    [w EXCEPT !.directories = Append(@, [username |-> username, path |-> path, name |-> name])]

\* fault names the INSERT the store fails at: "" for none, "root", "shared"
createRootandSharedFailing(w, username, fault) ==
    IF validateUniqueUserByUsername(w, username) # ""
    THEN [w |-> w, err |-> "Invalid username"]
    ELSE IF fault = "root"
    THEN [w |-> w, err |-> "disk I/O error"]
    ELSE IF fault = "shared"
    THEN [w |-> InsertDirectory(w, username, EmptyStr, Slash), err |-> "disk I/O error"]
    ELSE [w |-> InsertDirectory(InsertDirectory(w, username, EmptyStr, Slash),
                                username, Slash, <<"shared", "">>),
          err |-> ""]

createRootandShared(w, username) == createRootandSharedFailing(w, username, "")

removeAllDirectories(w, username) ==
    IF validateUniqueUserByUsername(w, username) # ""
    THEN [w |-> w, err |-> "Invalid username"]
    ELSE [w |-> [w EXCEPT !.directories = Delete(@, LAMBDA row : row.username = username)],
          err |-> ""]

\* createDirectoryByUsername without the count of the directories of that name
createDirectoryAgain(w, username, curr_dir, dirname) ==
    IF validateUniqueUserByUsername(w, username) # ""
    THEN [w |-> w, err |-> "Invalid username"]
    ELSE [w |-> InsertDirectory(w, username, curr_dir, Cat(dirname, Slash)), err |-> ""]

createDirectoryByUsername(w, username, curr_dir, dirname) ==
    LET name == Cat(dirname, Slash) IN
    IF validateUniqueUserByUsername(w, username) # ""
    THEN [w |-> w, err |-> "Invalid username"]
    ELSE IF getNumDirectoriesByUsername(w, username, curr_dir, name) # 0
    THEN [w |-> w, err |-> "Directory already exists"]
    ELSE [w |-> InsertDirectory(w, username, curr_dir, name), err |-> ""]

makeSharerDirectoryForSharee(w, sharer_username, sharee_username) ==
    LET dirname == <<sharer_username, "">>
        path == <<"", "shared", "">>
        count_dirs == getNumDirectoriesByUsername(w, sharee_username, path, dirname) IN
    IF validateUniqueUserByUsername(w, sharer_username) # ""
       \/ validateUniqueUserByUsername(w, sharee_username) # ""
    THEN [w |-> w, err |-> "Invalid username"]
    ELSE IF sharer_username = sharee_username
    THEN [w |-> w, err |-> "Sharer and sharee cannot be the same person"]
    ELSE IF count_dirs = 1
    THEN [w |-> w, err |-> ""]
    ELSE IF count_dirs >= 2
    THEN [w |-> w, err |-> "Shared directory exists more than once"]
    ELSE [w |-> InsertDirectory(w, sharee_username, path, dirname), err |-> ""]

\* a removal that leaves the sharee's directory in place
keepSharerDirectory(w, sharer_username, sharee_username) ==
    [w |-> w, err |-> ""]

removeSharerDirectoryForSharee(w, sharer_username, sharee_username) ==
    LET dirname == <<sharer_username, "">>
        path == <<"", "shared", "">>
        count_dirs == getNumDirectoriesByUsername(w, sharee_username, path, dirname) IN
    IF validateUniqueUserByUsername(w, sharer_username) # ""
       \/ validateUniqueUserByUsername(w, sharee_username) # ""
    THEN [w |-> w, err |-> "Invalid username"]
    ELSE IF sharer_username = sharee_username
    THEN [w |-> w, err |-> "Sharer and sharee cannot be the same person"]
    ELSE IF count_dirs # 1
    THEN [w |-> w, err |-> "Shared directory does not exist"]
    ELSE [w |-> [w EXCEPT !.directories = Delete(@, LAMBDA row : row.username = sharee_username
                                                      /\ row.path = path /\ row.name = dirname)],
          err |-> ""]

\* removeDirectoryByUsername without the look for files in the directory
removeDirectoryWithFiles(w, username, curr_dir, dirname) ==
    LET name == Cat(dirname, Slash)
        subdir == Cat(curr_dir, name)
        subdirectories == getSubdirectoriesByUsernameAndCurrDir(w, username, subdir) IN
    IF validateUniqueUserByUsername(w, username) # ""
    THEN [w |-> w, err |-> "Invalid username"]
    ELSE IF getNumDirectoriesByUsername(w, username, curr_dir, name) # 1
    THEN [w |-> w, err |-> "Directory does not exist"]
    ELSE IF Len(subdirectories.dirs) # 0
    THEN [w |-> w, err |-> "Cannot remove directory that has subdirectories."]
    ELSE [w |-> [w EXCEPT !.directories = Delete(@, LAMBDA row : row.username = username
                                                      /\ row.path = curr_dir /\ row.name = name)],
          err |-> ""]

removeDirectoryByUsername(w, username, curr_dir, dirname) ==
    LET name == Cat(dirname, Slash)
        subdir == Cat(curr_dir, name)
        filesIn == getFilesByUsernameAndCurrDir(w, username, subdir)
        subdirectories == getSubdirectoriesByUsernameAndCurrDir(w, username, subdir) IN
    IF validateUniqueUserByUsername(w, username) # ""
    THEN [w |-> w, err |-> "Invalid username"]
    ELSE IF getNumDirectoriesByUsername(w, username, curr_dir, name) # 1
    THEN [w |-> w, err |-> "Directory does not exist"]
    ELSE IF filesIn.files # {}
    THEN [w |-> w, err |-> "Cannot remove directory that has files."]
    ELSE IF Len(subdirectories.dirs) # 0
    THEN [w |-> w, err |-> "Cannot remove directory that has subdirectories."]
    ELSE [w |-> [w EXCEPT !.directories = Delete(@, LAMBDA row : row.username = username
                                                      /\ row.path = curr_dir /\ row.name = name)],
          err |-> ""]

checkValidDirectoryPath(w, username, path0) ==
    LET path1 == IF EndsWithSlash(path0) THEN path0 ELSE Cat(path0, Slash)
        cur == getCurrDir(w, username)
        path == IF path1[1] = "" THEN handleDots(path1)
                ELSE handleDots(Cat(cur.curr_dir, path1))
        pc == getParentPathAndChildofDirectory(path) IN
    IF path0 = EmptyStr
    THEN [path |-> EmptyStr, err |-> "Cannot give empty string as path"]
    ELSE IF path1[1] # "" /\ cur.err # ""
    THEN [path |-> EmptyStr, err |-> cur.err]
    ELSE IF pc.err # ""
    THEN [path |-> EmptyStr, err |-> pc.err]
    ELSE IF validateDirectoryExistsByUsername(w, username, pc.parent, pc.child) # ""
    THEN [path |-> EmptyStr, err |-> "Directory does not exist"]
    ELSE [path |-> path, err |-> ""]

checkValidAbsolutePathWithFile(w, username, path0) ==
    LET split == getParentPathAndChildofFile(path0)
        path == handleDots(split.parent)
        pc == getParentPathAndChildofDirectory(path) IN
    IF path0 = EmptyStr
    THEN [path |-> EmptyStr, file_name |-> EmptyStr, err |-> "Cannot give empty string as path"]
    ELSE IF EndsWithSlash(path0)
    THEN [path |-> EmptyStr, file_name |-> EmptyStr, err |-> "This is not a valid file path"]
    ELSE IF path0[1] # "" \/ Len(path0) < 2
    THEN [path |-> EmptyStr, file_name |-> EmptyStr, err |-> "This is not an absolute path"]
    ELSE IF pc.err # ""
    THEN [path |-> EmptyStr, file_name |-> EmptyStr, err |-> pc.err]
    ELSE IF validateDirectoryExistsByUsername(w, username, pc.parent, pc.child) # ""
    THEN [path |-> EmptyStr, file_name |-> EmptyStr, err |-> "Directory does not exist"]
    ELSE [path |-> split.parent, file_name |-> split.child, err |-> ""]

setCurrDir(w, username, path0) ==
    LET path1 == IF EndsWithSlash(path0) THEN path0 ELSE Cat(path0, Slash)
        valid == checkValidDirectoryPath(w, username, path1) IN
    IF validateUniqueUserByUsername(w, username) # ""
    THEN [w |-> w, err |-> "Invalid username"]
    ELSE IF valid.err # ""
    THEN [w |-> w, err |-> valid.err]
    ELSE [w |-> [w EXCEPT !.users[username].curr_dir = valid.path], err |-> ""]

resetCurrDir(w, username) ==
    IF validateUniqueUserByUsername(w, username) # ""
    THEN [w |-> w, err |-> "Invalid username"]
    ELSE [w |-> [w EXCEPT !.users[username].curr_dir = EmptyStr], err |-> ""]

checkIfFileExistsAndgetChecksum(w, username, filename, filepath) ==
    LET n == countNumFilesByUsernameAndFileInfo(w, username, filename, filepath) IN
    IF n.err # "" THEN [checksum |-> "", err |-> n.err]
    ELSE IF n.count # 1 THEN [checksum |-> "", err |-> "This file does not exist"]
    ELSE getChecksum(w, username, filename, filepath)

-----------------------------------------------------------------------------
(* shared table *)

\* -1 with an error when a user does not exist or owner = sharee
getNumSharedFilesByInfo(w, owner, filename, filepath, sharee) ==
    IF validateUniqueUserByUsername(w, owner) # "" \/ validateUniqueUserByUsername(w, sharee) # ""
    THEN [count |-> -1, err |-> "Invalid username"]
    ELSE IF owner = sharee
    THEN [count |-> -1, err |-> "Cannot share file with yourself."]
    ELSE [count |-> Count(w.shared, LAMBDA row : row.owner = owner /\ row.filename = filename
                               /\ row.filepath = filepath /\ row.sharee = sharee),
          err |-> ""]

getNumSharedFilesBySharerAndShareeUsername(w, sharer_username, sharee_username) ==
    IF validateUniqueUserByUsername(w, sharer_username) # ""
       \/ validateUniqueUserByUsername(w, sharee_username) # ""
    THEN [count |-> -1, err |-> "Invalid username"]
    ELSE [count |-> Count(w.shared, LAMBDA row : row.owner = sharer_username
                               /\ row.sharee = sharee_username),
          err |-> ""]

\* INSERT INTO shared
InsertShared(w, sharer_username, filename, filepath, checksum, sharee_username, write_perms) ==
    [w EXCEPT !.shared = Append(@, [owner |-> sharer_username, filename |-> filename,
                                    filepath |-> filepath, checksum |-> checksum,
                                    sharee |-> sharee_username, write_perms |-> write_perms])]

\* no check of the edges that exist
shareWithoutCheck(w, sharer_username, filename, filepath, sharee_username) ==
    ""

\* the checks of shareFileWithSharee that come before its INSERT
shareFileWithShareeCheck(w, sharer_username, filename, filepath, sharee_username) ==
    LET count_files == getNumSharedFilesByInfo(w, sharer_username, filename, filepath,
                                               sharee_username) IN
    IF validateUniqueUserByUsername(w, sharer_username) # ""
       \/ validateUniqueUserByUsername(w, sharee_username) # ""
    THEN "Invalid username"
    ELSE IF sharer_username = sharee_username
    THEN "Cannot share file with yourself."
    ELSE IF count_files.err # ""
    THEN count_files.err
    ELSE IF count_files.count # 0
    THEN "You have already shared a file with the same name with the given user"
    ELSE ""

\* the checks of chmodFileWithSharee and unshareFileFromSharee before their statement
sharedExactlyOnceCheck(w, sharer_username, filename, filepath, sharee_username, msg) ==
    LET count_files == getNumSharedFilesByInfo(w, sharer_username, filename, filepath,
                                               sharee_username) IN
    IF validateUniqueUserByUsername(w, sharer_username) # ""
       \/ validateUniqueUserByUsername(w, sharee_username) # ""
    THEN "Invalid username"
    ELSE IF sharer_username = sharee_username
    THEN "Cannot share file with yourself."
    ELSE IF count_files.err # ""
    THEN count_files.err
    ELSE IF count_files.count # 1
    THEN msg
    ELSE ""

\* UPDATE shared SET write_perms = ? WHERE owner, filename, filepath, checksum, sharee
chmodFileWithShareeExec(w, sharer_username, filename, filepath, checksum, sharee_username, write_perms) ==
    [w EXCEPT !.shared = Update(@,
        LAMBDA row : row.owner = sharer_username /\ row.filename = filename
                     /\ row.filepath = filepath /\ row.checksum = checksum
                     /\ row.sharee = sharee_username,
        LAMBDA row : [row EXCEPT !.write_perms = write_perms])]

\* DELETE FROM shared WHERE owner, filename, filepath, checksum, sharee
unshareFileFromShareeExec(w, sharer_username, filename, filepath, checksum, sharee_username) ==
    [w EXCEPT !.shared = Delete(@,
        LAMBDA row : row.owner = sharer_username /\ row.filename = filename
                     /\ row.filepath = filepath /\ row.checksum = checksum
                     /\ row.sharee = sharee_username)]

updateSharedChecksumsByOwner(w, owner, owner_path, filename, old_checksum, new_checksum) ==
    IF validateUniqueUserByUsername(w, owner) # ""
    THEN [w |-> w, err |-> "Invalid username"]
    ELSE [w |-> [w EXCEPT !.shared = Update(@,
                     LAMBDA row : row.owner = owner /\ row.filename = filename
                                  /\ row.filepath = owner_path /\ row.checksum = old_checksum,
                     LAMBDA row : [row EXCEPT !.checksum = new_checksum])],
          err |-> ""]

\* the first statement of updateSharedChecksumsBySharee: UPDATE shared
updateSharedChecksumsByShareeShared(w, owner, owner_path, filename, old_checksum, new_checksum) ==
    IF validateUniqueUserByUsername(w, owner) # ""
    THEN [w |-> w, err |-> "Invalid username"]
    ELSE [w |-> [w EXCEPT !.shared = Update(@,
                     LAMBDA row : row.owner = owner /\ row.filename = filename
                                  /\ row.checksum = old_checksum,
                     LAMBDA row : [row EXCEPT !.checksum = new_checksum])],
          err |-> ""]

\* the UPDATE of files left out
updateShareeKeepsFiles(w, owner, owner_path, filename, old_checksum, new_checksum) == w

\* the second statement of updateSharedChecksumsBySharee: UPDATE files
updateSharedChecksumsByShareeFiles(w, owner, owner_path, filename, old_checksum, new_checksum) ==
    [w EXCEPT !.files = Update(@,
        LAMBDA row : row.username = owner /\ row.filename = filename
                     /\ row.filepath = owner_path /\ row.checksum = old_checksum,
        LAMBDA row : [row EXCEPT !.checksum = new_checksum])]

\* has_write is false whenever err is not nil
hasWritePermissions(w, sharee, filename, filepath, checksum) ==
    LET hits == Idx(w.shared, LAMBDA row : row.filename = filename /\ row.filepath = filepath
                                  /\ row.sharee = sharee /\ row.checksum = checksum) IN
    IF validateUniqueUserByUsername(w, sharee) # ""
    THEN [has_write |-> FALSE, err |-> "Invalid username"]
    ELSE IF hits = {}
    THEN [has_write |-> FALSE, err |-> "sql: no rows in result set"]
    ELSE [has_write |-> w.shared[Min(hits)].write_perms, err |-> ""]

\* the owner's root taken for the path, whoever the file is shared with
getSharedOwnerPathRoot(w, sharee, owner, filename) == [owner_path |-> Slash, err |-> ""]

getSharedOwnerPath(w, sharee, owner, filename) ==
    LET hits == Idx(w.shared, LAMBDA row : row.filename = filename /\ row.owner = owner
                                  /\ row.sharee = sharee) IN
    IF validateUniqueUserByUsername(w, sharee) # ""
    THEN [owner_path |-> EmptyStr, err |-> "Invalid username"]
    ELSE IF hits = {}
    THEN [owner_path |-> EmptyStr, err |-> "sql: no rows in result set"]
    ELSE [owner_path |-> w.shared[Min(hits)].filepath, err |-> ""]

\* the sequence of a column's values as the multiset ORDER BY ... ASC lists
BagOf(seq) ==
    [x \in {seq[i] : i \in DOMAIN seq} |-> Cardinality({i \in DOMAIN seq : seq[i] = x})]

\* SELECT filename ... ORDER BY filename ASC
getSharedFilesByUsernameAndOwner(w, username, owner) ==
    LET rows == SelectSeq(w.shared, LAMBDA row : row.sharee = username /\ row.owner = owner) IN
    IF validateUniqueUserByUsername(w, username) # ""
    THEN [files |-> <<>>, err |-> "Invalid username"]
    ELSE [files |-> BagOf([i \in DOMAIN rows |-> rows[i].filename]), err |-> ""]

\* SELECT sharee, in rowid order
getShareesByOwnerAndFileInfo(w, owner, filename, filepath) ==
    LET rows == SelectSeq(w.shared, LAMBDA row : row.owner = owner /\ row.filename = filename
                                                  /\ row.filepath = filepath)
        n == countNumFilesByUsernameAndFileInfo(w, owner, filename, filepath) IN
    IF validateUniqueUserByUsername(w, owner) # ""
    THEN [sharees |-> <<>>, err |-> "Invalid username"]
    ELSE IF n.err # "" THEN [sharees |-> <<>>, err |-> n.err]
    ELSE IF n.count # 1 THEN [sharees |-> <<>>, err |-> "File does not exist"]
    ELSE [sharees |-> [i \in DOMAIN rows |-> rows[i].sharee], err |-> ""]

\* deleteAllFilesSharedWithUserByUsername deleting no row
keepFilesSharedWithUser(w, username) ==
    IF validateUniqueUserByUsername(w, username) # ""
    THEN [w |-> w, err |-> "Invalid username"]
    ELSE [w |-> w, err |-> ""]

deleteAllFilesSharedWithUserByUsername(w, username) ==
    IF validateUniqueUserByUsername(w, username) # ""
    THEN [w |-> w, err |-> "Invalid username"]
    ELSE [w |-> [w EXCEPT !.shared = Delete(@, LAMBDA row : row.sharee = username)],
          err |-> ""]

\* a count that overlooks the shared table
countNoSharees(w, owner, filename, filepath) ==
    [count |-> 0, err |-> ""]

countNumShareesByOwnerAndFileInfo(w, owner, filename, filepath) ==
    LET count_files == countNumFilesByUsernameAndFileInfo(w, owner, filename, filepath) IN
    IF validateUniqueUserByUsername(w, owner) # ""
    THEN [count |-> -1, err |-> "Invalid username"]
    ELSE IF count_files.count # 1
    THEN [count |-> -1, err |-> "File does not exist"]
    ELSE [count |-> Count(w.shared, LAMBDA row : row.owner = owner /\ row.filename = filename
                               /\ row.filepath = filepath),
          err |-> ""]

-----------------------------------------------------------------------------
(* blob area *)

\* a removal that leaves the blob in place
osRemoveKeeps(w, checksum) ==
    [w |-> w, err |-> ""]

\* os.Remove(basedir + "/" + checksum)
osRemove(w, checksum) ==
    IF checksum \notin DOMAIN w.blobs
    THEN [w |-> w, err |-> "remove: no such file or directory"]
    ELSE [w |-> [w EXCEPT !.blobs = [c \in DOMAIN w.blobs \ {checksum} |-> w.blobs[c]]],
          err |-> ""]

\* a write that stores nothing
writeNothing(w, hexFilename, file_bytes) ==
    w

\* ioutil.WriteFile(basedir + "/" + hexFilename, file_bytes, 0600)
WriteFile(w, hexFilename, file_bytes) ==
    [w EXCEPT !.blobs = [c \in DOMAIN w.blobs \cup {hexFilename} |->
                            IF c = hexFilename THEN file_bytes ELSE w.blobs[c]]]

-----------------------------------------------------------------------------
(* A call in progress: its arguments, its position and its local variables *)

NoBytes == [data |-> "", size |-> 0]

\* Out is what a call returns besides Err and Logout (Path, Dirs and Files,
\* Body, Sharees); salt, ver and the session token of a login are the random
\* strings the handler draws; fault is the INSERT the store fails at
Idle == [op |-> "", pc |-> "idle", username |-> "", session_token |-> "",
         file_bytes |-> NoBytes, arg |-> EmptyStr, flag |-> FALSE, sharee |-> "",
         curr_dir |-> EmptyStr, filename |-> EmptyStr, countFiles |-> 0,
         hexFilename |-> "", numInstances |-> 0, old_checksum |-> "",
         owner_path |-> EmptyStr, checksum |-> "", Err |-> "", Logout |-> FALSE,
         email |-> "", password |-> "", ver_code |-> "", salt |-> "", ver |-> "",
         fault |-> "", stored_password |-> "", stored_ver_code |-> "",
         stored_ver_code_creation_time |-> 0, Out |-> <<>>]

\* arg: the path, file name or directory name; flag: modify or write_perms
Call(op, username, session_token, file_bytes, arg, flag, sharee) ==
    [Idle EXCEPT !.op = op, !.pc = "start", !.username = username,
                 !.session_token = session_token, !.file_bytes = file_bytes,
                 !.arg = arg, !.flag = flag, !.sharee = sharee, !.filename = arg]

\* return internal.ErrorReturn{Err: err, Logout: logout}
Ret(w, l, err, logout) ==
    [w |-> w, l |-> [l EXCEPT !.pc = "done", !.Err = err, !.Logout = logout]]

Goto(w, l, pc) == [w |-> w, l |-> [l EXCEPT !.pc = pc]]

\* a successful return with a payload
RetOut(w, l, out) == Ret(w, [l EXCEPT !.Out = out], "", FALSE)

\* a call before login
PreCall(op, email, username, password, ver_code) ==
    [Idle EXCEPT !.op = op, !.pc = "start", !.email = email, !.username = username,
                 !.password = password, !.ver_code = ver_code]

-----------------------------------------------------------------------------
(* uploadHandler *)

\* serverpostlogin.go 374-403: the checks between path resolution and the count
uploadAfterPath(w, l) ==
    IF ~validateFilename(l.filename)
    THEN Ret(w, l, "Invalid file name.", FALSE)
    ELSE IF checkIfCurrDirIsInSharedFolder(l.curr_dir) /\ ~l.flag
    THEN Ret(w, l, "Unable to create file in shared directory", FALSE)
    ELSE IF ~checkIfCurrDirIsInSharedFolder(l.curr_dir)
    THEN Goto(w, l, "count")
    ELSE Goto(w, l, "sharedpath")

\* serverpostlogin.go 405-413
uploadAfterCount(w, l) ==
    IF l.countFiles # 0 /\ ~l.flag
    THEN Ret(w, l, "Unable to create file, file already exists", FALSE)
    ELSE IF l.countFiles # 1 /\ l.flag
    THEN Ret(w, l, "File to modify does not exist on server", FALSE)
    ELSE Goto(w, l, "checksum")

uploadHandler(w, l) ==
    LET username == l.username
        modify == l.flag
        owner == getSharedOwner(l.curr_dir) IN
    CASE l.pc = "start" ->
           IF l.file_bytes.size >= FileSizeLimit
           THEN Ret(w, l, "This file is too big", FALSE)
           ELSE LET chk == checkSessionToken(w, username, l.session_token) IN
                IF chk.err # "" THEN Ret(chk.w, l, chk.err, TRUE)
                ELSE Goto(chk.w, l, "sizelimit")
      [] l.pc = "sizelimit" ->
           LET err == overUserSizeLimit(w, username) IN
           IF err # "" THEN Ret(w, l, err, FALSE) ELSE Goto(w, l, "currdir")
      [] l.pc = "currdir" ->
           LET cur == getCurrDir(w, username)
               l2 == [l EXCEPT !.curr_dir = cur.curr_dir] IN
           IF cur.err # "" THEN Ret(w, l, cur.err, FALSE)
           ELSE IF checkIfAbsolutePath(l.arg) THEN Goto(w, l2, "abspath")
           ELSE uploadAfterPath(w, l2)
      [] l.pc = "abspath" ->
           LET valid == checkValidAbsolutePathWithFile(w, username, l.arg) IN
           IF valid.err # "" THEN Ret(w, l, valid.err, FALSE)
           ELSE uploadAfterPath(w, [l EXCEPT !.curr_dir = valid.path,
                                             !.filename = valid.file_name])
      [] l.pc = "count" ->
           LET n == countNumFilesByUsernameAndFileInfo(w, username, l.filename, l.curr_dir) IN
           IF n.err # "" THEN Ret(w, l, "This file does not exist", FALSE)
           ELSE uploadAfterCount(w, [l EXCEPT !.countFiles = n.count])
      [] l.pc = "sharedpath" ->
           LET op == getSharedOwnerPath(w, username, owner, l.filename) IN
           IF op.err # "" THEN Ret(w, l, "This file does not exist", FALSE)
           ELSE Goto(w, [l EXCEPT !.owner_path = op.owner_path], "sharedcount")
      [] l.pc = "sharedcount" ->
           LET n == countNumFilesByUsernameAndFileInfo(w, owner, l.filename, l.owner_path) IN
           IF n.err # "" THEN Ret(w, l, "This file does not exist", FALSE)
           ELSE uploadAfterCount(w, [l EXCEPT !.countFiles = n.count])
      [] l.pc = "checksum" ->
           LET hexFilename == makeFileChecksum(l.file_bytes)
               l2 == [l EXCEPT !.hexFilename = hexFilename,
                               !.numInstances = countNumFileByChecksum(w, hexFilename)] IN
           IF modify /\ ~checkIfCurrDirIsInSharedFolder(l.curr_dir) THEN Goto(w, l2, "own_old")
           ELSE IF modify THEN Goto(w, l2, "shr_path")
           ELSE Goto(w, l2, "write")
      \* modify by the owner
      [] l.pc = "own_old" ->
           LET old == getChecksum(w, username, l.filename, l.curr_dir) IN
           IF old.checksum = l.hexFilename THEN Ret(w, l, "No modifications detected", FALSE)
           ELSE IF old.err # "" THEN Ret(w, l, "This file does not exist", FALSE)
           ELSE Goto(w, [l EXCEPT !.old_checksum = old.checksum], "own_update")
      [] l.pc = "own_update" ->
           LET r == updateOwnerChecksum(w, username, l.filename, l.curr_dir, l.hexFilename) IN
           IF r.err # "" THEN Ret(w, l, "This file does not exist", FALSE)
           ELSE Goto(r.w, l, "own_shared")
      [] l.pc = "own_shared" ->
           LET r == updateSharedChecksumsByOwner(w, username, l.curr_dir, l.filename,
                                                 l.old_checksum, l.hexFilename) IN
           IF r.err # "" THEN Ret(w, l, "There was an error", FALSE)
           ELSE Goto(r.w, l, "old_count")
      \* modify by a sharee
      [] l.pc = "shr_path" ->
           LET op == getSharedOwnerPath(w, username, owner, l.filename) IN
           IF op.err # "" THEN Ret(w, l, "This file does not exist", FALSE)
           ELSE Goto(w, [l EXCEPT !.owner_path = op.owner_path], "shr_old")
      [] l.pc = "shr_old" ->
           LET old == getChecksum(w, owner, l.filename, l.owner_path) IN
           IF old.err # "" THEN Ret(w, l, "This file does not exist", FALSE)
           ELSE IF old.checksum = l.hexFilename
           THEN Ret(w, l, "No modifications detected", FALSE)
           ELSE Goto(w, [l EXCEPT !.old_checksum = old.checksum], "shr_perm")
      [] l.pc = "shr_perm" ->
           LET perm == hasWritePermissions(w, username, l.filename, l.owner_path,
                                           l.old_checksum) IN
           IF ~perm.has_write
           THEN Ret(w, l, "You do not have write permissions to this shared file.", FALSE)
           ELSE Goto(w, l, "shr_update_shared")
      [] l.pc = "shr_update_shared" ->
           LET r == updateSharedChecksumsByShareeShared(w, owner, l.owner_path, l.filename,
                                                        l.old_checksum, l.hexFilename) IN
           IF r.err # "" THEN Ret(w, l, "This file does not exist", FALSE)
           ELSE Goto(r.w, l, "shr_update_files")
      [] l.pc = "shr_update_files" ->
           Goto(updateSharedChecksumsByShareeFiles(w, owner, l.owner_path, l.filename,
                                                   l.old_checksum, l.hexFilename),
                l, "old_count")
      \* both modify branches: remove the old version if no one else is using it
      [] l.pc = "old_count" ->
           IF countNumFileByChecksum(w, l.old_checksum) = 0
           THEN Goto(w, l, "old_remove")
           ELSE Goto(w, l, "write")
      [] l.pc = "old_remove" ->
           LET r == osRemove(w, l.old_checksum) IN
           IF r.err # "" THEN Ret(w, l, "There was an error", FALSE)
           ELSE Goto(r.w, l, "write")
      [] l.pc = "write" ->
           LET w2 == IF l.numInstances = 0 THEN WriteFile(w, l.hexFilename, l.file_bytes)
                     ELSE w IN
           IF ~modify THEN Goto(w2, l, "insert") ELSE Ret(w2, l, "", FALSE)
      [] l.pc = "insert" ->
           LET r == uploadFile(w, username, l.filename, l.curr_dir, l.hexFilename) IN
           IF r.err # "" THEN Ret(w, l, "There was an error", FALSE)
           ELSE Ret(r.w, l, "", FALSE)

-----------------------------------------------------------------------------
(* rmfileHandler, with removeFileByUsername (usertable.go) in line *)

rmfileAfterPath(w, l) ==
    IF ~validateFilename(l.filename)
    THEN Ret(w, l, "Invalid file name.", FALSE)
    ELSE IF HasSharedPrefix(l.curr_dir)
    THEN Ret(w, l, "Unable to remove file in shared directory.", FALSE)
    ELSE Goto(w, l, "rm_count")

rmfileHandler(w, l) ==
    LET username == l.username IN
    CASE l.pc = "start" ->
           LET chk == checkSessionToken(w, username, l.session_token) IN
           IF chk.err # "" THEN Ret(chk.w, l, chk.err, TRUE)
           ELSE Goto(chk.w, l, "currdir")
      [] l.pc = "currdir" ->
           LET cur == getCurrDir(w, username)
               l2 == [l EXCEPT !.curr_dir = cur.curr_dir] IN
           IF cur.err # "" THEN Ret(w, l, cur.err, FALSE)
           ELSE IF checkIfAbsolutePath(l.arg) THEN Goto(w, l2, "abspath")
           ELSE rmfileAfterPath(w, l2)
      [] l.pc = "abspath" ->
           LET valid == checkValidAbsolutePathWithFile(w, username, l.arg) IN
           IF valid.err # "" THEN Ret(w, l, valid.err, FALSE)
           ELSE rmfileAfterPath(w, [l EXCEPT !.curr_dir = valid.path,
                                             !.filename = valid.file_name])
      \* removeFileByUsername
      [] l.pc = "rm_count" ->
           LET n == countNumFilesByUsernameAndFileInfo(w, username, l.filename, l.curr_dir) IN
           IF n.err # "" THEN Ret(w, l, n.err, FALSE)
           ELSE IF n.count # 1 THEN Ret(w, l, "File does not exist", FALSE)
           ELSE Goto(w, l, "rm_checksum")
      [] l.pc = "rm_checksum" ->
           LET c == getChecksum(w, username, l.filename, l.curr_dir) IN
           IF c.err # "" THEN Ret(w, l, c.err, FALSE)
           ELSE Goto(w, [l EXCEPT !.checksum = c.checksum], "rm_sharees")
      [] l.pc = "rm_sharees" ->
           LET n == countNumShareesByOwnerAndFileInfo(w, username, l.filename, l.curr_dir) IN
           IF n.err # "" THEN Ret(w, l, n.err, FALSE)
           ELSE IF n.count # 0
           THEN Ret(w, l, "You must unshare a file with all users before deleting the file.",
                    FALSE)
           ELSE Goto(w, l, "rm_delete")
      [] l.pc = "rm_delete" ->
           Goto([w EXCEPT !.files = Delete(@, LAMBDA row : row.username = username
                                     /\ row.filename = l.filename /\ row.filepath = l.curr_dir)],
                l, "rm_recount")
      [] l.pc = "rm_recount" ->
           IF countNumFileByChecksum(w, l.checksum) = 0
           THEN Goto(w, l, "rm_remove")
           ELSE Ret(w, l, "", FALSE)
      \* back in rmfileHandler: physically delete the file
      [] l.pc = "rm_remove" ->
           LET r == osRemove(w, l.checksum) IN
           IF r.err # "" THEN Ret(w, l, r.err, FALSE)
           ELSE Ret(r.w, l, "", FALSE)

-----------------------------------------------------------------------------
(* sharefileHandler, unsharefileHandler, chmodfileHandler *)

sharefileHandler(w, l) ==
    LET sharer_username == l.username
        sharee_username == l.sharee
        filename == l.filename IN
    CASE l.pc = "start" ->
           LET chk == checkSessionToken(w, sharer_username, l.session_token) IN
           IF chk.err # "" THEN Ret(chk.w, l, chk.err, TRUE)
           ELSE IF ~validateFilename(filename) THEN Ret(chk.w, l, "Invalid filename", FALSE)
           ELSE IF ~validateUsername(sharer_username)
           THEN Ret(chk.w, l, "Invalid username", FALSE)
           ELSE IF ~validateUsername(sharee_username)
           THEN Ret(chk.w, l, "Invalid sharee username", FALSE)
           ELSE IF sharer_username = sharee_username
           THEN Ret(chk.w, l, "Cannot share file with yourself", FALSE)
           ELSE Goto(chk.w, l, "currdir")
      [] l.pc = "currdir" ->
           LET cur == getCurrDir(w, sharer_username) IN
           IF cur.err # "" THEN Ret(w, l, cur.err, FALSE)
           ELSE IF HasSharedPrefix(cur.curr_dir)
           THEN Ret(w, l, "Unable to share file that has been shared with you", FALSE)
           ELSE Goto(w, [l EXCEPT !.curr_dir = cur.curr_dir], "count")
      [] l.pc = "count" ->
           LET n == countNumFilesByUsernameAndFileInfo(w, sharer_username, filename,
                                                       l.curr_dir) IN
           IF n.err # "" THEN Ret(w, l, n.err, FALSE)
           ELSE IF n.count # 1 THEN Ret(w, l, "File does not exist", FALSE)
           ELSE Goto(w, l, "checksum")
      [] l.pc = "checksum" ->
           LET c == getChecksum(w, sharer_username, filename, l.curr_dir) IN
           IF c.err # "" THEN Ret(w, l, c.err, FALSE)
           ELSE Goto(w, [l EXCEPT !.checksum = c.checksum], "sharee")
      [] l.pc = "sharee" ->
           IF getNumUsersWithUsername(w, sharee_username) # 1
           THEN Ret(w, l, "Sharee does not exist", FALSE)
           ELSE Goto(w, l, "mkdir")
      [] l.pc = "mkdir" ->
           LET r == makeSharerDirectoryForSharee(w, sharer_username, sharee_username) IN
           IF r.err # "" THEN Ret(w, l, r.err, FALSE)
           ELSE Goto(r.w, l, "share_check")
      \* shareFileWithSharee
      [] l.pc = "share_check" ->
           LET err == shareFileWithShareeCheck(w, sharer_username, filename, l.curr_dir,
                                               sharee_username) IN
           IF err # "" THEN Ret(w, l, err, FALSE)
           ELSE Goto(w, l, "share_insert")
      [] l.pc = "share_insert" ->
           Ret(InsertShared(w, sharer_username, filename, l.curr_dir, l.checksum,
                            sharee_username, l.flag),
               l, "", FALSE)

unsharefileHandler(w, l) ==
    LET sharer_username == l.username
        sharee_username == l.sharee
        filename == l.filename IN
    CASE l.pc = "start" ->
           LET chk == checkSessionToken(w, sharer_username, l.session_token) IN
           IF chk.err # "" THEN Ret(chk.w, l, chk.err, TRUE)
           ELSE IF ~validateFilename(filename) THEN Ret(chk.w, l, "panic: nil pointer dereference", FALSE)
           ELSE IF ~validateUsername(sharer_username)
           THEN Ret(chk.w, l, "Invalid username", FALSE)
           ELSE IF ~validateUsername(sharee_username)
           THEN Ret(chk.w, l, "Invalid sharee username", FALSE)
           ELSE IF sharer_username = sharee_username
           THEN Ret(chk.w, l, "Cannot share file with yourself", FALSE)
           ELSE Goto(chk.w, l, "currdir")
      [] l.pc = "currdir" ->
           LET cur == getCurrDir(w, sharer_username) IN
           IF cur.err # "" THEN Ret(w, l, cur.err, FALSE)
           ELSE IF HasSharedPrefix(cur.curr_dir)
           THEN Ret(w, l, "Unable to share file that has been shared with you", FALSE)
           ELSE Goto(w, [l EXCEPT !.curr_dir = cur.curr_dir], "count")
      [] l.pc = "count" ->
           LET n == countNumFilesByUsernameAndFileInfo(w, sharer_username, filename,
                                                       l.curr_dir) IN
           IF n.err # "" THEN Ret(w, l, n.err, FALSE)
           ELSE IF n.count # 1 THEN Ret(w, l, "File does not exist", FALSE)
           ELSE Goto(w, l, "checksum")
      [] l.pc = "checksum" ->
           LET c == getChecksum(w, sharer_username, filename, l.curr_dir) IN
           IF c.err # "" THEN Ret(w, l, c.err, FALSE)
           ELSE Goto(w, [l EXCEPT !.checksum = c.checksum], "sharee")
      [] l.pc = "sharee" ->
           IF getNumUsersWithUsername(w, sharee_username) # 1
           THEN Ret(w, l, "Sharee does not exist", FALSE)
           ELSE Goto(w, l, "unshare_check")
      \* unshareFileFromSharee
      [] l.pc = "unshare_check" ->
           LET err == sharedExactlyOnceCheck(w, sharer_username, filename, l.curr_dir,
                          sharee_username,
                          "You have not shared the selected file with the given user") IN
           IF err # "" THEN Ret(w, l, err, FALSE)
           ELSE Goto(w, l, "unshare_delete")
      [] l.pc = "unshare_delete" ->
           Goto(unshareFileFromShareeExec(w, sharer_username, filename, l.curr_dir, l.checksum,
                                          sharee_username),
                l, "unshare_count")
      [] l.pc = "unshare_count" ->
           LET n == getNumSharedFilesBySharerAndShareeUsername(w, sharer_username,
                                                               sharee_username) IN
           IF n.err # "" THEN Ret(w, l, n.err, FALSE)
           ELSE IF n.count = 0 THEN Goto(w, l, "unshare_rmdir")
           ELSE Ret(w, l, "", FALSE)
      [] l.pc = "unshare_rmdir" ->
           LET r == removeSharerDirectoryForSharee(w, sharer_username, sharee_username) IN
           IF r.err # "" THEN Ret(w, l, r.err, FALSE)
           ELSE Ret(r.w, l, "", FALSE)

chmodfileHandler(w, l) ==
    LET sharer_username == l.username
        sharee_username == l.sharee
        filename == l.filename IN
    CASE l.pc = "start" ->
           LET chk == checkSessionToken(w, sharer_username, l.session_token) IN
           IF chk.err # "" THEN Ret(chk.w, l, chk.err, TRUE)
           ELSE IF ~validateFilename(filename) THEN Ret(chk.w, l, "Invalid filename", FALSE)
           ELSE IF ~validateUsername(sharer_username)
           THEN Ret(chk.w, l, "Invalid username", FALSE)
           ELSE IF ~validateUsername(sharee_username)
           THEN Ret(chk.w, l, "Invalid sharee username", FALSE)
           ELSE IF sharer_username = sharee_username
           THEN Ret(chk.w, l, "Cannot chmod file with yourself", FALSE)
           ELSE Goto(chk.w, l, "currdir")
      [] l.pc = "currdir" ->
           LET cur == getCurrDir(w, sharer_username) IN
           IF cur.err # "" THEN Ret(w, l, cur.err, FALSE)
           ELSE IF HasSharedPrefix(cur.curr_dir)
           THEN Ret(w, l, "Unable to chmod file that has been shared with you", FALSE)
           ELSE Goto(w, [l EXCEPT !.curr_dir = cur.curr_dir], "count")
      [] l.pc = "count" ->
           LET n == countNumFilesByUsernameAndFileInfo(w, sharer_username, filename,
                                                       l.curr_dir) IN
           IF n.err # "" THEN Ret(w, l, n.err, FALSE)
           ELSE IF n.count # 1 THEN Ret(w, l, "File does not exist", FALSE)
           ELSE Goto(w, l, "checksum")
      [] l.pc = "checksum" ->
           LET c == getChecksum(w, sharer_username, filename, l.curr_dir) IN
           IF c.err # "" THEN Ret(w, l, c.err, FALSE)
           ELSE Goto(w, [l EXCEPT !.checksum = c.checksum], "sharee")
      [] l.pc = "sharee" ->
           IF getNumUsersWithUsername(w, sharee_username) # 1
           THEN Ret(w, l, "Sharee does not exist", FALSE)
           ELSE Goto(w, l, "chmod_check")
      \* chmodFileWithSharee
      [] l.pc = "chmod_check" ->
           LET err == sharedExactlyOnceCheck(w, sharer_username, filename, l.curr_dir,
                          sharee_username,
                          "You have not shared this file with the given user.") IN
           IF err # "" THEN Ret(w, l, err, FALSE)
           ELSE Goto(w, l, "chmod_update")
      [] l.pc = "chmod_update" ->
           Ret(chmodFileWithShareeExec(w, sharer_username, filename, l.curr_dir, l.checksum,
                                       sharee_username, l.flag),
               l, "", FALSE)

-----------------------------------------------------------------------------
(* deleteacctHandler, mkdirHandler, rmdirHandler, cdHandler *)

deleteacctHandler(w, l) ==
    LET username == l.username IN
    CASE l.pc = "start" ->
           LET chk == checkSessionToken(w, username, l.session_token) IN
           IF chk.err # "" THEN Ret(chk.w, l, chk.err, TRUE)
           ELSE IF ~validateUsername(username) THEN Ret(chk.w, l, "Invalid username", FALSE)
           ELSE Goto(chk.w, l, "currdir")
      [] l.pc = "currdir" ->
           LET cur == getCurrDir(w, username) IN
           IF cur.err # "" THEN Ret(w, l, cur.err, FALSE)
           ELSE IF cur.curr_dir # Slash
           THEN Ret(w, l, "Can only delete account form home (/) directory", FALSE)
           ELSE Goto(w, [l EXCEPT !.curr_dir = cur.curr_dir], "files")
      [] l.pc = "files" ->
           LET owned == getFilesByUsernameAndCurrDir(w, username, l.curr_dir) IN
           IF owned.err # "" THEN Ret(w, l, owned.err, FALSE)
           ELSE IF owned.files # {}
           THEN Ret(w, l, "To be deleted, account must have no owned files", FALSE)
           ELSE Goto(w, l, "subdirs")
      [] l.pc = "subdirs" ->
           LET subdirectories == getSubdirectoriesByUsernameAndCurrDir(w, username,
                                                                       l.curr_dir) IN
           IF subdirectories.err # "" THEN Ret(w, l, subdirectories.err, FALSE)
           ELSE IF Len(subdirectories.dirs) = 0
           THEN Ret(w, l, "Unable to delete account", FALSE)
           ELSE IF Len(subdirectories.dirs) # 1
           THEN Ret(w, l, "To be deleted, account must have no owned directories other than /shared/",
                    FALSE)
           ELSE IF subdirectories.dirs[1].name # <<"shared", "">>
           THEN Ret(w, l, "Unable to delete account, account has directory other than shared/",
                    FALSE)
           ELSE Goto(w, l, "del_shared")
      [] l.pc = "del_shared" ->
           LET r == deleteAllFilesSharedWithUserByUsername(w, username) IN
           IF r.err # "" THEN Ret(w, l, r.err, FALSE) ELSE Goto(r.w, l, "del_dirs")
      [] l.pc = "del_dirs" ->
           LET r == removeAllDirectories(w, username) IN
           IF r.err # "" THEN Ret(w, l, r.err, FALSE) ELSE Goto(r.w, l, "del_user")
      [] l.pc = "del_user" ->
           LET r == removeUserRowByUsername(w, username) IN
           IF r.err # "" THEN Ret(w, l, r.err, FALSE) ELSE Ret(r.w, l, "", TRUE)

mkdirHandler(w, l) ==
    LET username == l.username
        dirname == l.arg IN
    CASE l.pc = "start" ->
           LET chk == checkSessionToken(w, username, l.session_token) IN
           IF chk.err # "" THEN Ret(chk.w, l, chk.err, TRUE)
           ELSE IF ~validateDirname(dirname)
           THEN Ret(chk.w, l, "Invalid directory name.", FALSE)
           ELSE Goto(chk.w, l, "currdir")
      [] l.pc = "currdir" ->
           LET cur == getCurrDir(w, username) IN
           IF cur.err # "" THEN Ret(w, l, cur.err, FALSE)
           ELSE IF HasSharedPrefix(cur.curr_dir)
           THEN Ret(w, l, "Unable to create folder in shared directory.", FALSE)
           ELSE Goto(w, [l EXCEPT !.curr_dir = cur.curr_dir], "create")
      [] l.pc = "create" ->
           LET r == createDirectoryByUsername(w, username, l.curr_dir, dirname) IN
           IF r.err # "" THEN Ret(w, l, r.err, FALSE) ELSE Ret(r.w, l, "", FALSE)

rmdirHandler(w, l) ==
    LET username == l.username
        dirname == l.arg IN
    CASE l.pc = "start" ->
           LET chk == checkSessionToken(w, username, l.session_token) IN
           IF chk.err # "" THEN Ret(chk.w, l, chk.err, TRUE)
           ELSE IF ~validateDirname(dirname)
           THEN Ret(chk.w, l, "Invalid directory name.", FALSE)
           ELSE Goto(chk.w, l, "currdir")
      [] l.pc = "currdir" ->
           LET cur == getCurrDir(w, username) IN
           IF cur.err # "" THEN Ret(w, l, cur.err, FALSE)
           ELSE IF cur.curr_dir = Slash /\ dirname = Str("shared")
           THEN Ret(w, l, "Unable to delete shared directory.", FALSE)
           ELSE IF HasSharedPrefix(cur.curr_dir)
           THEN Ret(w, l, "Unable to remove directory in shared directory.", FALSE)
           ELSE Goto(w, [l EXCEPT !.curr_dir = cur.curr_dir], "remove")
      [] l.pc = "remove" ->
           LET r == removeDirectoryByUsername(w, username, l.curr_dir, dirname) IN
           IF r.err # "" THEN Ret(w, l, r.err, FALSE) ELSE Ret(r.w, l, "", FALSE)

cdHandler(w, l) ==
    LET username == l.username IN
    CASE l.pc = "start" ->
           LET chk == checkSessionToken(w, username, l.session_token) IN
           IF chk.err # "" THEN Ret(chk.w, l, chk.err, TRUE)
           ELSE Goto(chk.w, l, "validate")
      [] l.pc = "validate" ->
           LET valid == checkValidDirectoryPath(w, username, l.arg) IN
           IF valid.err # "" THEN Ret(w, l, valid.err, FALSE)
           ELSE IF checkIfAbsolutePath(valid.path)
           THEN Goto(w, [l EXCEPT !.curr_dir = valid.path], "set")
           ELSE Goto(w, [l EXCEPT !.owner_path = valid.path], "old_path")
      [] l.pc = "old_path" ->
           LET cur == getCurrDir(w, username) IN
           IF cur.err # "" THEN Ret(w, l, cur.err, FALSE)
           ELSE Goto(w, [l EXCEPT !.curr_dir = Cat(cur.curr_dir, l.owner_path)], "set")
      [] l.pc = "set" ->
           LET r == setCurrDir(w, username, l.curr_dir) IN
           IF r.err # "" THEN Ret(w, l, r.err, FALSE) ELSE Ret(r.w, l, "", FALSE)

-----------------------------------------------------------------------------
(* The handlers before login *)

\* l.salt and l.ver are createRandomString(8) and createRandomString(6);
\* sendEmail hands l.ver to the owner of the address
emailRegisterHandler(w, l) ==
    CASE l.pc = "start" ->
           IF overUsersLimit(w) # "" THEN Ret(w, l, overUsersLimit(w), FALSE)
           ELSE IF ~validateEmail(l.email)
           THEN Ret(w, l, "Invalid email address, canceling registration.", FALSE)
           ELSE IF ~validateUsername(l.username)
           THEN Ret(w, l, "Invalid username, canceling registration.", FALSE)
           ELSE IF validatePassword(l.password) # ""
           THEN Ret(w, l, validatePassword(l.password), FALSE)
           ELSE Goto(w, l, "reg_username")
      \* createNewUserPreEmail
      [] l.pc = "reg_username" ->
           LET err == createNewUserPreEmailUsername(w, l.username) IN
           IF err # "" THEN Ret(w, l, err, FALSE) ELSE Goto(w, l, "reg_email")
      [] l.pc = "reg_email" ->
           LET err == createNewUserPreEmailEmail(w, l.email) IN
           IF err # "" THEN Ret(w, l, err, FALSE) ELSE Goto(w, l, "reg_insert")
      [] l.pc = "reg_insert" ->
           LET r == createNewUserPreEmailInsert(w, l.email, l.username,
                                                bcryptHash(l.password \o l.salt), l.salt,
                                                bcryptHash(l.ver)) IN
           Ret(r.w, l, r.err, FALSE)

\* a failure that removes the row: the error kept in Err is returned unless the
\* removal fails itself
validateRegisterFail(w, l, err) == Goto(w, [l EXCEPT !.Err = err], "vr_remove")

validateRegisterHandler(w, l) ==
    CASE l.pc = "start" ->
           IF ~validateEmail(l.email)
           THEN Ret(w, l, "Invalid email address, canceling registration.", FALSE)
           ELSE IF ~validateUsername(l.username)
           THEN Ret(w, l, "Invalid username, canceling registration.", FALSE)
           ELSE IF validatePassword(l.password) # ""
           THEN Ret(w, l, validatePassword(l.password), FALSE)
           ELSE Goto(w, l, "vr_password")
      [] l.pc = "vr_password" ->
           LET stored == getUserPasswordByUsernameAndEmail(w, l.username, l.email) IN
           IF stored.err # "" THEN validateRegisterFail(w, l, stored.err)
           ELSE Goto(w, [l EXCEPT !.stored_password = stored.password], "vr_salt")
      [] l.pc = "vr_salt" ->
           LET salted == getSaltedPass(w, l.username, l.password) IN
           IF salted.err # "" THEN Ret(w, l, salted.err, FALSE)
           ELSE IF ~bcryptMatches(l.stored_password, salted.salted_pass)
           THEN Ret(w, l, "Incorrect password.", FALSE)
           ELSE Goto(w, l, "vr_getver")
      [] l.pc = "vr_getver" ->
           LET info == getVerCodeInfoByUsernameAndEmail(w, l.username, l.email) IN
           IF info.err # "" THEN validateRegisterFail(w, l, info.err)
           ELSE Goto(w, [l EXCEPT !.stored_ver_code = info.ver_code,
                                  !.stored_ver_code_creation_time = info.time], "vr_rmver")
      [] l.pc = "vr_rmver" ->
           LET r == removeVerCodeInfoByUsernameAndEmail(w, l.username, l.email) IN
           IF r.err # "" THEN validateRegisterFail(w, l, r.err)
           ELSE IF l.stored_ver_code_creation_time + time_diff < w.now
           THEN validateRegisterFail(r.w, l, "Verification code expired")
           ELSE IF ~bcryptMatches(l.stored_ver_code, l.ver_code)
           THEN validateRegisterFail(r.w, l, "Incorrect password.")
           ELSE Goto(r.w, l, "vr_root")
      [] l.pc = "vr_root" ->
           LET r == createRootandSharedFailing(w, l.username, l.fault) IN
           IF r.err # "" THEN validateRegisterFail(r.w, l, r.err)
           ELSE Ret(r.w, l, "", FALSE)
      [] l.pc = "vr_remove" ->
           LET r == removeUserRowByUsernameAndEmail(w, l.username, l.email) IN
           IF r.err # "" THEN Ret(w, l, r.err, FALSE) ELSE Ret(r.w, l, l.Err, FALSE)

\* LoginReturn{SessionToken: []byte{}, Err: err}
validateLoginFail(w, l, err) == Ret(w, [l EXCEPT !.session_token = ""], err, FALSE)

\* l.session_token is createRandomString(64), returned when the login succeeds
validateLoginHandler(w, l) ==
    CASE l.pc = "start" ->
           IF ~validateUsername(l.username)
           THEN validateLoginFail(w, l, "Invalid username, canceling registration.")
           ELSE IF validatePassword(l.password) # ""
           THEN validateLoginFail(w, l, validatePassword(l.password))
           ELSE Goto(w, l, "login_password")
      [] l.pc = "login_password" ->
           LET stored == getUserPasswordByUsername(w, l.username) IN
           IF stored.err # "" THEN validateLoginFail(w, l, stored.err)
           ELSE Goto(w, [l EXCEPT !.stored_password = stored.password], "login_salt")
      [] l.pc = "login_salt" ->
           LET salted == getSaltedPass(w, l.username, l.password) IN
           IF salted.err # "" THEN validateLoginFail(w, l, salted.err)
           ELSE IF ~bcryptMatches(l.stored_password, salted.salted_pass)
           THEN validateLoginFail(w, l, "Incorrect password.")
           ELSE Goto(w, l, "login_token")
      [] l.pc = "login_token" ->
           LET r == createSessionTokenByUsername(w, l.username, bcryptHash(l.session_token)) IN
           IF r.err # "" THEN validateLoginFail(w, l, r.err)
           ELSE Goto(r.w, l, "login_cd")
      [] l.pc = "login_cd" ->
           LET r == setCurrDir(w, l.username, Slash) IN
           IF r.err # "" THEN validateLoginFail(w, l, r.err)
           ELSE Ret(r.w, l, "", FALSE)

-----------------------------------------------------------------------------
(* The handlers after login that read, and logout *)

getWorkingDirectoryHandler(w, l) ==
    CASE l.pc = "start" ->
           LET chk == checkSessionToken(w, l.username, l.session_token) IN
           IF chk.err # "" THEN Ret(chk.w, l, chk.err, TRUE)
           ELSE Goto(chk.w, l, "currdir")
      [] l.pc = "currdir" ->
           LET cur == getCurrDir(w, l.username) IN
           IF cur.err # "" THEN Ret(w, l, cur.err, FALSE)
           ELSE RetOut(w, l, cur.curr_dir)

lsHandler(w, l) ==
    CASE l.pc = "start" ->
           LET chk == checkSessionToken(w, l.username, l.session_token) IN
           IF chk.err # "" THEN Ret(chk.w, l, chk.err, TRUE)
           ELSE Goto(chk.w, l, "currdir")
      [] l.pc = "currdir" ->
           LET cur == getCurrDir(w, l.username) IN
           IF cur.err # "" THEN Ret(w, l, cur.err, TRUE)
           ELSE Goto(w, [l EXCEPT !.curr_dir = cur.curr_dir], "ls_dirs")
      [] l.pc = "ls_dirs" ->
           LET subdirectories == getSubdirectoriesByUsernameAndCurrDir(w, l.username,
                                                                       l.curr_dir)
               names == [i \in DOMAIN subdirectories.dirs |-> subdirectories.dirs[i].name] IN
           IF subdirectories.err # "" THEN Ret(w, l, subdirectories.err, FALSE)
           ELSE Goto(w, [l EXCEPT !.Out = BagOf(names)], "ls_files")
      [] l.pc = "ls_files" ->
           IF ~checkIfCurrDirIsInSharedFolder(l.curr_dir)
           THEN LET owned == getFilesByUsernameAndCurrDir(w, l.username, l.curr_dir)
                    rows == SelectSeq(w.files, LAMBDA row : row.username = l.username
                                                   /\ row.filepath = l.curr_dir) IN
                IF owned.err # "" THEN Ret(w, [l EXCEPT !.Out = <<>>], owned.err, FALSE)
                ELSE RetOut(w, l, [Dirs |-> l.Out,
                                   Files |-> BagOf([i \in DOMAIN rows |-> rows[i].filename])])
           ELSE LET lent == getSharedFilesByUsernameAndOwner(w, l.username,
                                                             getSharedOwner(l.curr_dir)) IN
                IF lent.err # "" THEN Ret(w, [l EXCEPT !.Out = <<>>], lent.err, FALSE)
                ELSE RetOut(w, l, [Dirs |-> l.Out, Files |-> lent.files])

\* ioutil.ReadFile
ReadFile(w, checksum) ==
    IF checksum \in DOMAIN w.blobs
    THEN [file_bytes |-> w.blobs[checksum], err |-> ""]
    ELSE [file_bytes |-> NoBytes, err |-> "open: no such file or directory"]

catAfterPath(w, l) ==
    IF ~validateFilename(l.filename) THEN Ret(w, l, "Invalid file name.", FALSE)
    ELSE IF ~checkIfCurrDirIsInSharedFolder(l.curr_dir) THEN Goto(w, l, "cat_checksum")
    ELSE Goto(w, l, "cat_owner_path")

catHandler(w, l) ==
    CASE l.pc = "start" ->
           LET chk == checkSessionToken(w, l.username, l.session_token) IN
           IF chk.err # "" THEN Ret(chk.w, l, chk.err, TRUE)
           ELSE Goto(chk.w, l, "currdir")
      [] l.pc = "currdir" ->
           LET cur == getCurrDir(w, l.username)
               l2 == [l EXCEPT !.curr_dir = cur.curr_dir] IN
           IF cur.err # "" THEN Ret(w, l, cur.err, FALSE)
           ELSE IF checkIfAbsolutePath(l.arg) THEN Goto(w, l2, "abspath")
           ELSE catAfterPath(w, l2)
      [] l.pc = "abspath" ->
           LET valid == checkValidAbsolutePathWithFile(w, l.username, l.arg) IN
           IF valid.err # "" THEN Ret(w, l, valid.err, FALSE)
           ELSE catAfterPath(w, [l EXCEPT !.curr_dir = valid.path,
                                          !.filename = valid.file_name])
      [] l.pc = "cat_checksum" ->
           LET c == checkIfFileExistsAndgetChecksum(w, l.username, l.filename, l.curr_dir) IN
           IF c.err # "" THEN Ret(w, l, c.err, FALSE)
           ELSE Goto(w, [l EXCEPT !.checksum = c.checksum], "cat_read")
      \* the error of getSharedOwnerPath is overwritten
      [] l.pc = "cat_owner_path" ->
           LET op == getSharedOwnerPath(w, l.username, getSharedOwner(l.curr_dir),
                                        l.filename) IN
           Goto(w, [l EXCEPT !.owner_path = op.owner_path], "cat_owner_checksum")
      [] l.pc = "cat_owner_checksum" ->
           LET c == checkIfFileExistsAndgetChecksum(w, getSharedOwner(l.curr_dir), l.filename,
                                                    l.owner_path) IN
           IF c.err # "" THEN Ret(w, l, c.err, FALSE)
           ELSE Goto(w, [l EXCEPT !.checksum = c.checksum], "cat_read")
      [] l.pc = "cat_read" ->
           LET body == ReadFile(w, l.checksum) IN
           IF body.err # "" THEN Ret(w, l, body.err, FALSE)
           ELSE RetOut(w, l, body.file_bytes)

listshareesHandler(w, l) ==
    CASE l.pc = "start" ->
           LET chk == checkSessionToken(w, l.username, l.session_token) IN
           IF chk.err # "" THEN Ret(chk.w, l, chk.err, TRUE)
           ELSE IF ~validateUsername(l.username) THEN Ret(chk.w, l, "Invalid username", FALSE)
           ELSE IF ~validateFilename(l.filename) THEN Ret(chk.w, l, "Invalid filename", FALSE)
           ELSE Goto(chk.w, l, "currdir")
      [] l.pc = "currdir" ->
           LET cur == getCurrDir(w, l.username) IN
           IF cur.err # "" THEN Ret(w, l, cur.err, FALSE)
           ELSE Goto(w, [l EXCEPT !.curr_dir = cur.curr_dir], "sharees")
      [] l.pc = "sharees" ->
           LET sharees == getShareesByOwnerAndFileInfo(w, l.username, l.filename, l.curr_dir) IN
           IF sharees.err # "" THEN Ret(w, l, sharees.err, FALSE)
           ELSE RetOut(w, l, sharees.sharees)

\* takes no session token
logoutHandler(w, l) ==
    CASE l.pc = "start" ->
           LET r == resetCurrDir(w, l.username) IN
           IF r.err # "" THEN Ret(w, l, r.err, TRUE) ELSE Goto(r.w, l, "logout_token")
      [] l.pc = "logout_token" ->
           LET r == removeSessionTokenInfoByUsername(w, l.username) IN
           IF r.err # "" THEN Ret(w, l, r.err, TRUE) ELSE Ret(r.w, l, "", FALSE)

-----------------------------------------------------------------------------
(* The RPC server: one handler per registered call *)

Handler(w, l) ==
    CASE l.op = "upload" -> uploadHandler(w, l)
      [] l.op = "rmfile" -> rmfileHandler(w, l)
      [] l.op = "sharefile" -> sharefileHandler(w, l)
      [] l.op = "unsharefile" -> unsharefileHandler(w, l)
      [] l.op = "chmodfile" -> chmodfileHandler(w, l)
      [] l.op = "deleteacct" -> deleteacctHandler(w, l)
      [] l.op = "mkdir" -> mkdirHandler(w, l)
      [] l.op = "rmdir" -> rmdirHandler(w, l)
      [] l.op = "cd" -> cdHandler(w, l)
      [] l.op = "emailregister" -> emailRegisterHandler(w, l)
      [] l.op = "validateregister" -> validateRegisterHandler(w, l)
      [] l.op = "validatelogin" -> validateLoginHandler(w, l)
      [] l.op = "getworkingdirectory" -> getWorkingDirectoryHandler(w, l)
      [] l.op = "ls" -> lsHandler(w, l)
      [] l.op = "cat" -> catHandler(w, l)
      [] l.op = "listsharees" -> listshareesHandler(w, l)
      [] l.op = "logout" -> logoutHandler(w, l)

\* a call that runs from its first statement to its return with no other call in between
RECURSIVE Run(_, _), Resume(_)
Run(w, l) ==
    IF l.pc = "done" THEN [w |-> w, l |-> l]
    ELSE Resume(Handler(w, l))

Resume(r) == Run(r.w, r.l)

-----------------------------------------------------------------------------
(* The server's state and the clients' calls *)

W == [users |-> users, directories |-> directories, files |-> files, shared |-> shared,
      blobs |-> blobs, now |-> now]

SetW(w) ==
    /\ users' = w.users
    /\ directories' = w.directories
    /\ files' = w.files
    /\ shared' = w.shared
    /\ blobs' = w.blobs

\* the session token validateLoginHandler handed to the client of a user
Token(username) == "token-" \o username

\* the e-mail address, password and salt a user of the initial state registered with
EmailOf(username) == username \o "@x.io"
PasswordOf(username) == "Passw0rd-" \o username
SaltOf(username) == "salt"

\* a registered, logged-in user in the home directory
ActiveUser(username) ==
    [email |-> EmailOf(username), ver_code |-> NullBlob, ver_code_creation_time |-> NullInt,
     password |-> bcryptHash(PasswordOf(username) \o SaltOf(username)),
     salt |-> SaltOf(username),
     session_token |-> bcryptHash(Token(username)), session_token_last_access_time |-> 0,
     curr_dir |-> Slash]

RECURSIVE RootAndSharedOf(_)
RootAndSharedOf(names) ==
    IF names = <<>> THEN <<>>
    ELSE <<[username |-> Head(names), path |-> EmptyStr, name |-> Slash],
           [username |-> Head(names), path |-> Slash, name |-> <<"shared", "">>]>>
         \o RootAndSharedOf(Tail(names))

\* createTables, then the given users registered and logged in, in this order
InitWith(names) ==
    /\ users = [u \in {names[i] : i \in DOMAIN names} |-> ActiveUser(u)]
    /\ directories = RootAndSharedOf(names)
    /\ files = <<>>
    /\ shared = <<>>
    /\ blobs = <<>>
    /\ now = 0

\* a call served from its first statement to its return
Serve(call) ==
    \E r \in {Run(W, call)} :
      /\ SetW(r.w)
      /\ UNCHANGED <<now, procs>>

Contents == {[data |-> "a", size |-> 1], [data |-> "b", size |-> 1]}

FileNames == {Str("f")}

DirNames == {Str("d")}

\* directories made by mkdir
MadeDirs == Count(directories, LAMBDA row : row.path # EmptyStr /\ row.path # <<"", "shared", "">>
                                            /\ row.name # <<"shared", "">>)

\* /shared/<owner>/<filename>
SharedPath(owner, filename) == <<"", "shared", owner>> \o filename

\* /d/<filename>
InDir(dirname, filename) == <<"">> \o dirname \o filename

-----------------------------------------------------------------------------
(* Calls served one at a time *)

UserNames == <<"alice", "bob">>

Init == InitWith(UserNames) /\ procs = <<>>

\* upload <file> to the current directory, to /d/ or, for a modify, to /shared/<owner>/
Upload ==
    \E u \in DOMAIN users, b \in Contents, f \in FileNames, modify \in BOOLEAN :
      \E dest \in {f} \cup {InDir(d, f) : d \in DirNames}
                  \cup {SharedPath(o, f) : o \in DOMAIN users \ {u}} :
        /\ modify \/ Len(files) < MaxFiles
        /\ Serve(Call("upload", u, Token(u), b, dest, modify, ""))

Rmfile ==
    \E u \in DOMAIN users, f \in FileNames :
      \E dest \in {f} \cup {InDir(d, f) : d \in DirNames} :
        Serve(Call("rmfile", u, Token(u), NoBytes, dest, FALSE, ""))

Sharefile ==
    \E u \in DOMAIN users, f \in FileNames, write_perms \in BOOLEAN :
      \E sharee \in DOMAIN users \ {u} :
        /\ Len(shared) < MaxShared
        /\ Serve(Call("sharefile", u, Token(u), NoBytes, f, write_perms, sharee))

Unsharefile ==
    \E u \in DOMAIN users, f \in FileNames :
      \E sharee \in DOMAIN users \ {u} :
        Serve(Call("unsharefile", u, Token(u), NoBytes, f, FALSE, sharee))

Chmodfile ==
    \E u \in DOMAIN users, f \in FileNames, write_perms \in BOOLEAN :
      \E sharee \in DOMAIN users \ {u} :
        Serve(Call("chmodfile", u, Token(u), NoBytes, f, write_perms, sharee))

Deleteacct ==
    \E u \in DOMAIN users :
      Serve(Call("deleteacct", u, Token(u), NoBytes, EmptyStr, FALSE, ""))

Mkdir ==
    \E u \in DOMAIN users, d \in DirNames :
      /\ MadeDirs < MaxDirs
      /\ Serve(Call("mkdir", u, Token(u), NoBytes, d, FALSE, ""))

Rmdir ==
    \E u \in DOMAIN users, d \in DirNames :
      Serve(Call("rmdir", u, Token(u), NoBytes, d, FALSE, ""))

Cd ==
    \E u \in DOMAIN users :
      \E path \in {Slash, Str(".."), Str("shared")} \cup DirNames
                   \cup {Str(o) : o \in DOMAIN users \ {u}} :
        Serve(Call("cd", u, Token(u), NoBytes, path, FALSE, ""))

Next ==
    \/ Upload
    \/ Rmfile
    \/ Sharefile
    \/ Unsharefile
    \/ Chmodfile
    \/ Deleteacct
    \/ Mkdir
    \/ Rmdir
    \/ Cd

Spec == Init /\ [][Next]_vars

-----------------------------------------------------------------------------
(* The claims about calls served one at a time *)

\* the (filepath, filename) a destination names for a user: an absolute
\* destination names it outright, a relative one is taken in the current directory
Target(u, dest) ==
    IF checkIfAbsolutePath(dest)
    THEN [filepath |-> Front(dest) \o <<"">>, filename |-> <<Last(dest)>>]
    ELSE [filepath |-> users[u].curr_dir, filename |-> dest]

HasShareEntry(owner, filename, filepath) ==
    \E i \in DOMAIN shared : /\ shared[i].owner = owner
                             /\ shared[i].filename = filename
                             /\ shared[i].filepath = filepath

RmfileDests == FileNames \cup {InDir(d, f) : d \in DirNames, f \in FileNames}

RmfileOf(u, dest) == Run(W, Call("rmfile", u, Token(u), NoBytes, dest, FALSE, ""))

\* C1: in every reachable state, an rmfile call on a file that has at least one
\* Share Entry for (owner, filename, filepath) returns an error and leaves the
\* File Entries, Share Entries, Directory Entries and blobs as they were.
C1_RmfileOfSharedFileRejected ==
    \A u \in DOMAIN users, dest \in RmfileDests :
      LET t == Target(u, dest)
          r == RmfileOf(u, dest) IN
      HasShareEntry(u, t.filename, t.filepath) =>
        /\ r.l.Err # ""
        /\ r.w.files = files
        /\ r.w.shared = shared
        /\ r.w.directories = directories
        /\ r.w.blobs = blobs

\* a state where an owner's rmfile meets a file shared with someone and is turned down
C1_Witness ==
    \E u \in DOMAIN users, dest \in RmfileDests :
      LET t == Target(u, dest) IN
      /\ HasShareEntry(u, t.filename, t.filepath)
      /\ \E i \in DOMAIN files : /\ files[i].username = u
                                 /\ files[i].filename = t.filename
                                 /\ files[i].filepath = t.filepath
      /\ RmfileOf(u, dest).l.Err
           = "You must unshare a file with all users before deleting the file."

\* C2: every Share Entry's checksum equals the checksum of the owner's File Entry
\* with the same (owner, filename, filepath), in every state reached by completed
\* calls, also when one owner shares two same-named files of different
\* directories with the same sharee.
C2_ShareChecksumMirrorsOwner ==
    \A i \in DOMAIN shared :
      \E j \in DOMAIN files : /\ files[j].username = shared[i].owner
                              /\ files[j].filename = shared[i].filename
                              /\ files[j].filepath = shared[i].filepath
                              /\ files[j].checksum = shared[i].checksum

\* C4: with calls served one at a time, a blob is stored under checksum c if and
\* only if at least one File Entry of any user has checksum c.
C4_BlobIffReferenced ==
    /\ \A c \in DOMAIN blobs : \E j \in DOMAIN files : files[j].checksum = c
    /\ \A j \in DOMAIN files : files[j].checksum \in DOMAIN blobs

\* a state where one blob is referenced by two File Entries, and an rmfile of one
\* of them keeps the blob while a second rmfile then removes it
C4_Witness ==
    \E u \in DOMAIN users, v \in DOMAIN users, d1 \in RmfileDests, d2 \in RmfileDests :
      \E c \in DOMAIN blobs :
        LET r1 == RmfileOf(u, d1)
            r2 == Run(r1.w, Call("rmfile", v, Token(v), NoBytes, d2, FALSE, "")) IN
        /\ Cardinality({j \in DOMAIN files : files[j].checksum = c}) = 2
        /\ r1.l.Err = "" /\ Len(r1.w.files) = 1 /\ c \in DOMAIN r1.w.blobs
        /\ r2.l.Err = "" /\ Len(r2.w.files) = 0 /\ c \notin DOMAIN r2.w.blobs

SharedDir == <<"", "shared", "">>

NumSharerDirs(owner, sharee) ==
    Count(directories, LAMBDA row : row.username = sharee /\ row.path = SharedDir
                                    /\ row.name = <<owner, "">>)

NumEdges(owner, sharee) ==
    Count(shared, LAMBDA row : row.owner = owner /\ row.sharee = sharee)

\* C7: with calls served one at a time, a sharee has the Directory Entry
\* (/shared/, <owner>/) if and only if at least one Share Entry from that owner to
\* that sharee exists, and has it once however many files the owner shares.
C7_SharerDirIffEdge ==
    /\ \A i \in DOMAIN shared : NumSharerDirs(shared[i].owner, shared[i].sharee) = 1
    /\ \A i \in DOMAIN directories :
         directories[i].path = SharedDir =>
           \E j \in DOMAIN shared : /\ shared[j].sharee = directories[i].username
                                    /\ <<shared[j].owner, "">> = directories[i].name

UnsharefileOf(u, f, sharee) ==
    Run(W, Call("unsharefile", u, Token(u), NoBytes, f, FALSE, sharee))

\* a state where an owner shares two files with one sharee, who has one directory
\* for the owner; unsharing one file keeps the directory
C7_Witness ==
    \E u \in DOMAIN users, sharee \in DOMAIN users, f \in FileNames :
      LET r == UnsharefileOf(u, f, sharee) IN
      /\ NumEdges(u, sharee) = 2
      /\ NumSharerDirs(u, sharee) = 1
      /\ r.l.Err = ""
      /\ Len(r.w.shared) = 1
      /\ r.w.directories = directories

SharefileOf(u, f, sharee, write_perms) ==
    Run(W, Call("sharefile", u, Token(u), NoBytes, f, write_perms, sharee))

\* the Share Entries for a file of the owner's current directory and a sharee
IsEdge(row, u, f, sharee) ==
    /\ row.owner = u
    /\ row.filename = f
    /\ row.filepath = users[u].curr_dir
    /\ row.sharee = sharee

\* C9: in every reachable state, a sharefile call on an (owner, file, sharee)
\* triple that already has a Share Entry returns an error and leaves the Share
\* Entries (the existing edge's write_perms too) and the Directory Entries as
\* they were.
C9_DuplicateShareRejected ==
    \A u \in DOMAIN users, sharee \in DOMAIN users, f \in FileNames, write_perms \in BOOLEAN :
      LET r == SharefileOf(u, f, sharee, write_perms) IN
      (\E i \in DOMAIN shared : IsEdge(shared[i], u, f, sharee)) =>
        /\ r.l.Err # ""
        /\ r.w.shared = shared
        /\ r.w.directories = directories

\* a state where a file is shared read-only and the owner's second sharefile, asking
\* for read-write, is turned down
C9_Witness ==
    \E u \in DOMAIN users, sharee \in DOMAIN users, f \in FileNames :
      /\ \E i \in DOMAIN shared : IsEdge(shared[i], u, f, sharee) /\ ~shared[i].write_perms
      /\ SharefileOf(u, f, sharee, TRUE).l.Err
           = "You have already shared a file with the same name with the given user"

ChmodfileOf(u, f, sharee, write_perms) ==
    Run(W, Call("chmodfile", u, Token(u), NoBytes, f, write_perms, sharee))

\* C10: a chmodfile call that returns success leaves the Share Entry for (owner,
\* file, sharee) with write_perms equal to the requested value and changes no
\* other Share Entry, File Entry or Directory Entry; requesting the value already
\* in force succeeds and changes nothing; chmodfile fails when the edge does not
\* exist.
C10_ChmodSetsWritePerms ==
    \A u \in DOMAIN users, sharee \in DOMAIN users, f \in FileNames,
       write_perms \in BOOLEAN :
      LET r == ChmodfileOf(u, f, sharee, write_perms)
          edges == {i \in DOMAIN shared : IsEdge(shared[i], u, f, sharee)} IN
      /\ r.l.Err = "" =>
           /\ edges # {}
           /\ DOMAIN r.w.shared = DOMAIN shared
           /\ \A i \in DOMAIN shared :
                r.w.shared[i] = IF i \in edges
                                THEN [shared[i] EXCEPT !.write_perms = write_perms]
                                ELSE shared[i]
           /\ r.w.files = files
           /\ r.w.directories = directories
      /\ (edges # {} /\ \A i \in edges : shared[i].write_perms = write_perms) =>
           /\ r.l.Err = ""
           /\ r.w.shared = shared
      /\ edges = {} => r.l.Err # ""

\* C11: in every reachable state, an unsharefile call that returns success leaves
\* no Share Entry for that (owner, filename, filepath, sharee); it fails without
\* any change when the edge does not exist.
C11_UnshareRemovesEdge ==
    \A u \in DOMAIN users, sharee \in DOMAIN users, f \in FileNames :
      LET r == UnsharefileOf(u, f, sharee)
          edges == {i \in DOMAIN shared : IsEdge(shared[i], u, f, sharee)} IN
      /\ r.l.Err = "" =>
           \A i \in DOMAIN r.w.shared :
             ~(/\ r.w.shared[i].owner = u
               /\ r.w.shared[i].filename = f
               /\ r.w.shared[i].filepath = users[u].curr_dir
               /\ r.w.shared[i].sharee = sharee)
      /\ edges = {} =>
           /\ r.l.Err # ""
           /\ r.w.shared = shared
           /\ r.w.files = files
           /\ r.w.directories = directories
           /\ r.w.blobs = blobs

-----------------------------------------------------------------------------
(* Calls served one at a time, with two owners and a sharee *)

ThreeUserNames == <<"alice", "bob", "carol">>

Init3 == InitWith(ThreeUserNames) /\ procs = <<>>

\* the calls that make, change and remove files and edges
Next3 ==
    \/ Upload
    \/ Rmfile
    \/ Sharefile
    \/ Unsharefile
    \/ Chmodfile

Spec3 == Init3 /\ [][Next3]_vars

\* a modify of /shared/<owner>/<file> by a sharee
ModifyShared(u, o, f, b) ==
    Run(W, Call("upload", u, Token(u), b, SharedPath(o, f), TRUE, ""))

\* C3: an upload with modify=true issued by a sharee against
\* /shared/<owner>/<file> changes the owner's File Entry only if the Share Entry
\* of exactly that owner, that file and that sharee has write_perms = true; if
\* that edge is read-only the call returns an error and nothing changes, even
\* when another owner shares a file with the same name, path and checksum
\* read-write with the same sharee.
C3_ShareeWriteNeedsOwnEdge ==
    \A u \in DOMAIN users, o \in DOMAIN users, f \in FileNames, b \in Contents :
      LET r == ModifyShared(u, o, f, b)
          edges == {i \in DOMAIN shared : /\ shared[i].owner = o
                                          /\ shared[i].filename = f
                                          /\ shared[i].sharee = u} IN
      (u # o /\ \A i \in edges : ~shared[i].write_perms) =>
        /\ r.l.Err # ""
        /\ r.w.files = files
        /\ r.w.shared = shared
        /\ r.w.directories = directories
        /\ r.w.blobs = blobs

-----------------------------------------------------------------------------
(* Calls served concurrently.  The rpc package serves the calls of different *)
(* connections at the same time; a handler takes no lock and opens no        *)
(* transaction, so the store and file-system accesses of two calls           *)
(* interleave access by access.                                              *)

Clients == {"c1", "c2"}

InitClients == procs = [c \in Clients |-> Idle]

\* a client sends a call once its previous call has returned
Begin(c, call) ==
    /\ procs[c].pc \in {"idle", "done"}
    /\ procs' = [procs EXCEPT ![c] = call]
    /\ UNCHANGED <<users, directories, files, shared, blobs, now>>

\* the next store or file-system access of the call of some client
Step ==
    \E c \in Clients :
      /\ procs[c].pc \notin {"idle", "done"}
      /\ \E r \in {Handler(W, procs[c])} :
           /\ SetW(r.w)
           /\ procs' = [procs EXCEPT ![c] = r.l]
      /\ UNCHANGED now

\* every call sent has returned
Quiescent == \A c \in Clients : procs[c].pc \in {"idle", "done"}

-----------------------------------------------------------------------------
(* Uploads, modifies and rmfiles of two users, interleaved *)

\* the user each client is logged in as
ClientUser == [c \in Clients |-> IF c = "c1" THEN "alice" ELSE "bob"]

InitBlobRace == InitWith(UserNames) /\ InitClients

\* a call in progress that may drop the last reference to a checksum
Dropping(l) ==
    /\ l.pc \notin {"idle", "done"}
    /\ l.op = "rmfile" \/ (l.op = "upload" /\ l.flag)

\* an upload may start at any time; a modify only while the other user is not in
\* the middle of a modify or an rmfile
BeginUpload ==
    \E c \in Clients, b \in Contents, f \in FileNames, modify \in BOOLEAN :
      /\ modify \/ Len(files) < MaxFiles
      /\ modify => \A d \in Clients \ {c} : ~Dropping(procs[d])
      /\ Begin(c, Call("upload", ClientUser[c], Token(ClientUser[c]), b, f, modify, ""))

\* an rmfile starts while the other user is not in the middle of a modify or an rmfile
BeginRmfile ==
    \E c \in Clients, f \in FileNames :
      /\ \A d \in Clients \ {c} : ~Dropping(procs[d])
      /\ Begin(c, Call("rmfile", ClientUser[c], Token(ClientUser[c]), NoBytes, f, FALSE, ""))

NextBlobRace ==
    \/ BeginUpload
    \/ BeginRmfile
    \/ Step

SpecBlobRace == InitBlobRace /\ [][NextBlobRace]_vars

\* C5: under every interleaving of one user's rmfile (or modify) that drops the
\* last reference to checksum c with another user's upload of bytes whose
\* checksum is c, once the calls have returned no File Entry references a
\* checksum whose blob has been physically deleted.
C5_NoDanglingReference ==
    Quiescent => \A j \in DOMAIN files : files[j].checksum \in DOMAIN blobs

-----------------------------------------------------------------------------
(* New uploads only, interleaved *)

InitUploadRace == InitWith(UserNames) /\ InitClients

BeginNewUpload ==
    \E c \in Clients, u \in DOMAIN users, b \in Contents, f \in FileNames :
      /\ Len(files) < MaxFiles
      /\ Begin(c, Call("upload", u, Token(u), b, f, FALSE, ""))

NextUploadRace ==
    \/ BeginNewUpload
    \/ Step

SpecUploadRace == InitUploadRace /\ [][NextUploadRace]_vars

\* the upload of a client has returned without error
Uploaded(c) == procs[c].op = "upload" /\ procs[c].pc = "done" /\ procs[c].Err = ""

\* C6: two uploads of identical bytes, by the same or by different users and in
\* any interleaving of their steps, produce the same checksum, leave one blob
\* under that checksum holding those bytes, and every File Entry they create
\* references that blob.
C6_IdenticalUploadsOneBlob ==
    /\ \A c \in Clients :
         Uploaded(c) =>
           LET h == makeFileChecksum(procs[c].file_bytes) IN
           /\ \E j \in DOMAIN files :
                files[j] = [username |-> procs[c].username, filename |-> procs[c].filename,
                            filepath |-> procs[c].curr_dir, checksum |-> h]
           /\ h \in DOMAIN blobs
           /\ blobs[h] = procs[c].file_bytes
    /\ \A j \in DOMAIN files : files[j].checksum \in DOMAIN blobs
    /\ \A c1 \in Clients, c2 \in Clients :
         (Uploaded(c1) /\ Uploaded(c2) /\ procs[c1].file_bytes = procs[c2].file_bytes) =>
           procs[c1].hexFilename = procs[c2].hexFilename

\* both clients have uploaded the same bytes, as different users, and both calls
\* found no File Entry with the checksum; one blob and two File Entries result
C6_Witness ==
    /\ \A c \in Clients : Uploaded(c) /\ procs[c].numInstances = 0
    /\ procs["c1"].file_bytes = procs["c2"].file_bytes
    /\ procs["c1"].username # procs["c2"].username
    /\ Cardinality(DOMAIN blobs) = 1
    /\ Len(files) = 2
    /\ files[1].checksum = files[2].checksum

-----------------------------------------------------------------------------
(* sharefile and unsharefile of one owner, interleaved *)

RaceFileNames == {Str("f"), Str("g")}

Owner == "alice"

InitShareRace == InitWith(UserNames) /\ InitClients

\* the owner uploads a file, with no other call of the owner in progress
OwnerUpload ==
    \E b \in Contents, f \in RaceFileNames :
      /\ Quiescent
      /\ Len(files) < MaxFiles
      /\ Serve(Call("upload", Owner, Token(Owner), b, f, FALSE, ""))

\* the other client is between calls, or in the middle of the given call on
\* another file
OnlyBeside(c, op, f) ==
    \A d \in Clients \ {c} :
      \/ procs[d].pc \in {"idle", "done"}
      \/ procs[d].op = op /\ procs[d].arg # f

\* a sharefile starts beside no call but an unsharefile of another file
BeginSharefile ==
    \E c \in Clients, f \in RaceFileNames, write_perms \in BOOLEAN :
      \E sharee \in DOMAIN users \ {Owner} :
        /\ Len(shared) < MaxShared
        /\ OnlyBeside(c, "unsharefile", f)
        /\ Begin(c, Call("sharefile", Owner, Token(Owner), NoBytes, f, write_perms, sharee))

\* an unsharefile starts beside no call but a sharefile of another file
BeginUnsharefile ==
    \E c \in Clients, f \in RaceFileNames :
      \E sharee \in DOMAIN users \ {Owner} :
        /\ OnlyBeside(c, "sharefile", f)
        /\ Begin(c, Call("unsharefile", Owner, Token(Owner), NoBytes, f, FALSE, sharee))

NextShareRace ==
    \/ OwnerUpload
    \/ BeginSharefile
    \/ BeginUnsharefile
    \/ Step

SpecShareRace == InitShareRace /\ [][NextShareRace]_vars

\* C8: under every interleaving of a sharefile call and an unsharefile call from
\* the same owner to the same sharee, once both have returned the sharee's
\* /shared/<owner>/ Directory Entry exists if and only if a Share Entry from that
\* owner to that sharee exists.
C8_SharerDirIffEdgeAfterRace ==
    Quiescent =>
      \A o \in DOMAIN users, s \in DOMAIN users :
        (NumSharerDirs(o, s) > 0) <=> (NumEdges(o, s) > 0)

-----------------------------------------------------------------------------
(* sharefile calls, interleaved *)

InitSharefileRace == InitWith(UserNames) /\ InitClients

\* a user uploads a file, with no call in progress
QuietUpload ==
    \E u \in DOMAIN users, b \in Contents, f \in FileNames :
      /\ Quiescent
      /\ Len(files) < MaxFiles
      /\ Serve(Call("upload", u, Token(u), b, f, FALSE, ""))

\* a sharefile of any owner with any user, the owner included, starts at any time
BeginAnySharefile ==
    \E c \in Clients, u \in DOMAIN users, f \in FileNames, write_perms \in BOOLEAN :
      \E sharee \in DOMAIN users :
        /\ Len(shared) < MaxShared
        /\ Begin(c, Call("sharefile", u, Token(u), NoBytes, f, write_perms, sharee))

NextSharefileRace ==
    \/ QuietUpload
    \/ BeginAnySharefile
    \/ Step

SpecSharefileRace == InitSharefileRace /\ [][NextSharefileRace]_vars

\* C12: under every interleaving of sharefile calls, the shared table never holds
\* two Share Entries with the same (owner, filename, filepath, sharee), and never
\* holds an entry whose owner equals its sharee.
C12_ShareEntriesUnique ==
    /\ \A i \in DOMAIN shared, j \in DOMAIN shared :
         (/\ shared[i].owner = shared[j].owner
          /\ shared[i].filename = shared[j].filename
          /\ shared[i].filepath = shared[j].filepath
          /\ shared[i].sharee = shared[j].sharee) => i = j
    /\ \A i \in DOMAIN shared : shared[i].owner # shared[i].sharee

-----------------------------------------------------------------------------
(* Registration *)

\* createTables: the four tables, empty
InitTables ==
    /\ users = <<>>
    /\ directories = <<>>
    /\ files = <<>>
    /\ shared = <<>>
    /\ blobs = <<>>
    /\ now = 0

\* the user names, e-mail addresses and passwords clients register with
RegNames == {"alice", "bob"}
Emails == {"a@x.io", "b@x.io"}
Passwords == {"Passw0rd-1", "Passw0rd-2"}

\* the values createRandomString draws for a salt and for a verification code
Salts == {"salt"}
Codes == {"v1", "v2"}

Emailregister(email, username, password, salt, ver) ==
    [PreCall("emailregister", email, username, password, "") EXCEPT !.salt = salt, !.ver = ver]

-----------------------------------------------------------------------------
(* emailregister calls, interleaved *)

InitRegisterRace == InitTables /\ InitClients

\* the password and the random strings play no part in the checks of emailregister
BeginEmailregister ==
    \E c \in Clients, email \in Emails, username \in RegNames :
      Begin(c, Emailregister(email, username, "Passw0rd-1", "salt", "v1"))

NextRegisterRace ==
    \/ BeginEmailregister
    \/ Step

SpecRegisterRace == InitRegisterRace /\ [][NextRegisterRace]_vars

\* the user rows as the rows of a table
UserRows == {[username |-> u, email |-> users[u].email] : u \in DOMAIN users}

\* C13: under every interleaving of emailregister calls, no two user rows
\* (pending or active) share a username and no two user rows share an email
\* address.
C13_UsernameAndEmailUnique ==
    \A r1 \in UserRows, r2 \in UserRows :
      (r1.username = r2.username \/ r1.email = r2.email) => r1 = r2

-----------------------------------------------------------------------------
(* Registration and activation, calls served one at a time *)

\* the most rows of the directories table when an activation or a mkdir starts
MaxDirEntries == 4

\* the user names registered with when calls are served one at a time
Applicants == {"alice"}

\* the INSERT of createRootandShared the store fails at, "" for none
Faults == {"", "root", "shared"}

\* the times the clock shows when calls arrive
Times == {0, 300, 301, 601}

\* the values createRandomString draws for a session token
SessionTokens == {"t1"}

Validateregister(email, username, password, ver_code, fault) ==
    [PreCall("validateregister", email, username, password, ver_code) EXCEPT !.fault = fault]

Validatelogin(username, password, session_token) ==
    [PreCall("validatelogin", "", username, password, "") EXCEPT
       !.session_token = session_token]

InitRegister == InitTables /\ procs = <<>>

EmailregisterCall ==
    \E email \in Emails, username \in Applicants, password \in Passwords, ver \in Codes,
       salt \in Salts :
      Serve(Emailregister(email, username, password, salt, ver))

ValidateregisterCall ==
    \E email \in Emails, username \in Applicants, password \in Passwords, ver_code \in Codes,
       fault \in Faults :
      /\ Len(directories) + 2 <= MaxDirEntries
      /\ Serve(Validateregister(email, username, password, ver_code, fault))

ValidateloginCall ==
    \E username \in Applicants, password \in Passwords, session_token \in SessionTokens :
      Serve(Validatelogin(username, password, session_token))

\* a logged-in user makes a directory named shared
MkdirShared ==
    \E username \in Applicants, session_token \in SessionTokens :
      /\ Len(directories) < MaxDirEntries
      /\ Serve(Call("mkdir", username, session_token, NoBytes, Str("shared"), FALSE, ""))

\* time passes between calls
Tick ==
    \E t \in Times :
      /\ t > now
      /\ now' = t
      /\ UNCHANGED <<users, directories, files, shared, blobs, procs>>

NextRegister ==
    \/ EmailregisterCall
    \/ ValidateregisterCall
    \/ ValidateloginCall
    \/ MkdirShared
    \/ Tick

SpecRegister == InitRegister /\ [][NextRegister]_vars


-----------------------------------------------------------------------------
(* Activation: what a validateregister call leaves behind *)

\* a row of the users table for the username and the email
HasUserRow(w, username, email) ==
    username \in DOMAIN w.users /\ w.users[username].email = email

\* registered and not yet through the code check: the row still holds a code
PendingUser(w, username, email) ==
    HasUserRow(w, username, email) /\ w.users[username].ver_code # NullBlob

\* C14: a validateregister call on a pending user that fails for a wrong or
\* stale verification code, an expired code, a wrong password or a failure
\* while the root and shared directories are made leaves no user row for the
\* username and the email.
C14_FailedValidationRemovesRow ==
    \A email \in Emails, username \in Applicants, password \in Passwords,
       ver_code \in Codes, fault \in Faults :
      LET r == Run(W, Validateregister(email, username, password, ver_code, fault)) IN
      (PendingUser(W, username, email) /\ r.l.Err # "")
        => ~HasUserRow(r.w, username, email)

\* the user owns the root entry ("", "/")
HasRootEntry(w, username) ==
    \E i \in DOMAIN w.directories :
      w.directories[i] = [username |-> username, path |-> EmptyStr, name |-> Slash]

\* the user owns the shared entry ("/", "shared/")
HasSharedEntry(w, username) ==
    \E i \in DOMAIN w.directories :
      w.directories[i] = [username |-> username, path |-> Slash, name |-> <<"shared", "">>]

\* C16: createRootandShared inserts the root entry and the shared entry as one
\* unit: whatever step of the activation the store fails at, a validateregister
\* call that starts with neither entry ends with both or with neither, never
\* with the root entry alone.
C16_RootAndSharedAsOneUnit ==
    \A email \in Emails, username \in Applicants, password \in Passwords,
       ver_code \in Codes, fault \in Faults :
      LET r == Run(W, Validateregister(email, username, password, ver_code, fault)) IN
      (~HasRootEntry(W, username) /\ ~HasSharedEntry(W, username))
        => (HasRootEntry(r.w, username) <=> HasSharedEntry(r.w, username))

\* the user owns its root and shared entries
Active(w, username) == HasRootEntry(w, username) /\ HasSharedEntry(w, username)

\* the call presents the password and the code that emailregister stored for
\* the username and the email, no later than time_diff after the code was made
MatchingValidation(w, email, username, password, ver_code) ==
    /\ PendingUser(w, username, email)
    /\ bcryptMatches(w.users[username].password, password \o w.users[username].salt)
    /\ bcryptMatches(w.users[username].ver_code, ver_code)
    /\ w.now <= w.users[username].ver_code_creation_time + time_diff

\* a step in which the user becomes active is a matching validateregister call
ActivatedByValidation(username) ==
    (~Active(W, username) /\ Active(W, username)')
      => \E email \in Emails, password \in Passwords, ver_code \in Codes :
           /\ MatchingValidation(W, email, username, password, ver_code)
           /\ W' = Run(W, Validateregister(email, username, password, ver_code, "")).w

\* a validateregister call that reaches the code check leaves no code behind
CodeSpent ==
    \A email \in Emails, username \in Applicants, password \in Passwords,
       ver_code \in Codes, fault \in Faults :
      LET r == Run(W, Validateregister(email, username, password, ver_code, fault)) IN
      (/\ PendingUser(W, username, email)
       /\ bcryptMatches(W.users[username].password, password \o W.users[username].salt))
        => ~PendingUser(r.w, username, email)

\* C15: a user acquires its root and shared entries only through a
\* validateregister call that follows an emailregister for the username and
\* the email, presents the matching password and the matching code and comes
\* no later than 300 seconds after the code was created; and a code serves at
\* most one validateregister attempt that reaches the code check.
C15_ActivationOnlyByValidation ==
    /\ [][\A username \in Applicants : ActivatedByValidation(username)]_vars
    /\ []CodeSpent

-----------------------------------------------------------------------------
(* Sessions: login, calls with a token, logout, and the clock *)

\* the calls whose handler starts with checkSessionToken
TokenOps ==
    {"getworkingdirectory", "ls", "cd", "mkdir", "rmdir", "rmfile", "upload", "cat",
     "sharefile", "unsharefile", "listsharees", "deleteacct", "chmodfile"}

\* the user whose session is followed
Caller == "alice"

\* the tokens a call presents: the one of the first login, the one of a later
\* login, and one no login returned
PresentedTokens == {Token(Caller), "t1", "t0"}

\* the call of the operation with the token: directory d, file f, sharee bob
SessionCall(op, session_token) ==
    Call(op, Caller, session_token,
         IF op = "upload" THEN [data |-> "a", size |-> 1] ELSE NoBytes,
         IF op \in {"cd", "mkdir", "rmdir"} THEN Str("d") ELSE Str("f"),
         FALSE, "bob")

InitSession == InitWith(UserNames) /\ procs = <<>>

TokenCall ==
    \E op \in TokenOps, session_token \in PresentedTokens :
      /\ op = "mkdir" => MadeDirs < MaxDirs
      /\ Serve(SessionCall(op, session_token))

Login ==
    \E password \in {PasswordOf(Caller), "Passw0rd-0"}, session_token \in SessionTokens :
      Serve(Validatelogin(Caller, password, session_token))

Logout == Serve(PreCall("logout", "", Caller, "", ""))

NextSession ==
    \/ TokenCall
    \/ Login
    \/ Logout
    \/ Tick

SpecSession == InitSession /\ [][NextSession]_vars

\* the session of the caller is older than time_diff
SessionExpired ==
    /\ Caller \in DOMAIN users
    /\ users[Caller].session_token_last_access_time # NullInt
    /\ users[Caller].session_token_last_access_time + time_diff < now

\* the caller has no stored token hash and no last-access time
SessionPurged(w) ==
    /\ Caller \in DOMAIN w.users
    /\ w.users[Caller].session_token = NullBlob
    /\ w.users[Caller].session_token_last_access_time = NullInt

\* the call is turned down and tells the client to drop its token
Rejected(r) == r.l.Err # "" /\ r.l.Logout

\* every call with a token made on an expired session is rejected and purges it
ExpiredCallPurges ==
    \A op \in TokenOps, session_token \in PresentedTokens :
      LET r == Run(W, SessionCall(op, session_token)) IN
      SessionExpired => Rejected(r) /\ SessionPurged(r.w)

\* every call with a token made on a purged session is rejected, changing nothing
PurgedCallRejected ==
    \A op \in TokenOps, session_token \in PresentedTokens :
      LET r == Run(W, SessionCall(op, session_token)) IN
      SessionPurged(W) => Rejected(r) /\ r.w = W

\* a purged session gets a token again only by a validatelogin that succeeds
RestoredByLogin ==
    (SessionPurged(W) /\ ~SessionPurged(W)' /\ Caller \in DOMAIN users')
      => \E session_token \in SessionTokens :
           LET r == Run(W, Validatelogin(Caller, PasswordOf(Caller), session_token)) IN
           r.l.Err = "" /\ W' = r.w

SessionLive(session_token) ==
    /\ Caller \in DOMAIN users
    /\ users[Caller].session_token_last_access_time # NullInt
    /\ now <= users[Caller].session_token_last_access_time + time_diff
    /\ bcryptMatches(users[Caller].session_token, session_token)

\* C18: each successful token check sets the session's last-access time to the
\* current time, so that a session stays valid over any number of calls whose
\* gaps are at most 300 seconds: a call with the session's token made no later
\* than 300 seconds after the last successful one passes the token check, and
\* any call that passes it leaves the last-access time at the current time
\* and the token in place.
C18_TokenCheckRefreshesSession ==
    \A op \in TokenOps, session_token \in PresentedTokens :
      LET chk == checkSessionToken(W, Caller, session_token)
          r == Run(W, SessionCall(op, session_token)) IN
      /\ SessionLive(session_token) => chk.err = ""
      /\ (Caller \in DOMAIN users /\ chk.err = "")
           => /\ chk.w.users[Caller].session_token_last_access_time = now
              /\ Caller \in DOMAIN r.w.users
                   => /\ r.w.users[Caller].session_token_last_access_time = now
                      /\ r.w.users[Caller].session_token = users[Caller].session_token
              /\ r.l.Err \notin {"Session token expired.", "sql: Scan error"}

\* a state where the session of time 0 is still valid at time 601, after calls
\* at 300 and 301, and a call with its token refreshes it once more
C18_Witness ==
    /\ now = 601
    /\ SessionLive(Token(Caller))
    /\ users[Caller].session_token_last_access_time = 301
    /\ LET r == Run(W, SessionCall("getworkingdirectory", Token(Caller))) IN
       r.l.Err = "" /\ r.w.users[Caller].session_token_last_access_time = 601

\* C19: the logout flag of a response is true on a successful explicit logout,
\* on a successful deleteacct, and on every response that rejects the call for
\* an invalid or expired session token.
C19_LogoutFlag ==
    /\ LET r == Run(W, PreCall("logout", "", Caller, "", "")) IN
       r.l.Err = "" => r.l.Logout
    /\ \A session_token \in PresentedTokens :
         LET r == Run(W, SessionCall("deleteacct", session_token)) IN
         r.l.Err = "" => r.l.Logout
    /\ \A op \in TokenOps, session_token \in PresentedTokens :
         LET r == Run(W, SessionCall(op, session_token)) IN
         checkSessionToken(W, Caller, session_token).err # "" => Rejected(r)

-----------------------------------------------------------------------------
(* handleDots on every path of a few segments *)

\* the most segments strings.Split(path, "/") gives for the paths tried
MaxSegments == 5

\* what stands between two slashes
Segments == {"", ".", "..", "a", "b"}

RECURSIVE SeqsUpTo(_)
SeqsUpTo(n) ==
    IF n = 0 THEN {<<>>}
    ELSE LET shorter == SeqsUpTo(n - 1) IN
         shorter \cup {Append(p, s) : p \in {q \in shorter : Len(q) = n - 1}, s \in Segments}

\* the Go strings of at most MaxSegments segments
Paths == SeqsUpTo(MaxSegments) \ {<<>>}

\* one caller holding a path, no call made yet
InitPaths ==
    /\ InitTables
    /\ \E path \in Paths : procs = <<[Idle EXCEPT !.arg = path]>>

\* out_path := handleDots(path)
HandleDots ==
    /\ procs[1].pc = "idle"
    /\ procs' = <<[procs[1] EXCEPT !.pc = "done", !.Out = handleDots(procs[1].arg)]>>
    /\ UNCHANGED <<users, directories, files, shared, blobs, now>>

NextPaths == HandleDots

SpecPaths == InitPaths /\ [][NextPaths]_vars

\* the reference rule: the segments kept, the last segment decided last
RECURSIVE Kept(_)
Kept(segs) ==
    IF segs = <<>> THEN <<>>
    ELSE LET before == Kept(SubSeq(segs, 1, Len(segs) - 1))
             s == segs[Len(segs)] IN
         IF s \in {"", "."} THEN before
         ELSE IF s = ".." THEN SubSeq(before, 1, Len(before) - 1)
         ELSE Append(before, s)

\* "/" followed by every kept segment and a "/"
Canonical(path) == <<"">> \o Kept(path) \o <<"">>

\* C20: for every path handleDots returns the canonical path of the reference
\* rule ("." and empty segments are dropped, ".." removes the last kept
\* segment and is ignored at root); the result starts and ends with "/",
\* holds no "." or ".." segment, and is "/b/" for "/a/" + "../b/" and "/" for
\* "/" + "../../".
C20_HandleDotsCanonical ==
    procs[1].pc = "done" =>
      LET path == procs[1].arg
          out_path == procs[1].Out IN
      /\ out_path = Canonical(path)
      /\ Len(out_path) >= 2 /\ out_path[1] = "" /\ out_path[Len(out_path)] = ""
      /\ \A i \in DOMAIN out_path : out_path[i] \notin {".", ".."}
      /\ path = Cat(<<"", "a", "">>, <<"..", "b", "">>) => out_path = <<"", "b", "">>
      /\ path = Cat(Slash, <<"..", "..", "">>) => out_path = Slash

\* handleDots has returned for "/a/../b/", a path whose ".." removes a kept segment
C20_Witness ==
    /\ procs[1].pc = "done"
    /\ procs[1].arg = <<"", "a", "..", "b", "">>
    /\ procs[1].Out = <<"", "b", "">>

-----------------------------------------------------------------------------
(* Directory paths *)

\* the paths handed to checkValidDirectoryPath: absolute and relative, with
\* and without the closing slash, with "." and ".." segments
ProbePaths ==
    {Slash, <<"", "", "">>, <<"", "d", "">>, <<"", "d">>, <<"", "shared", "">>,
     <<"", "d", "..", "">>, <<"", ".", "d", "">>, <<"", "..", "d">>,
     <<"", "shared", "alice", "">>, <<"", "shared", "bob">>, <<"", "e", "">>,
     <<"", "d", "e", "..", "">>, <<"", "d", "d", "">>,
     <<"d">>, <<"d", "">>, <<".">>, <<"..">>, <<"d", "..">>, <<"..", "d", "">>,
     <<"shared", "alice">>, <<"..", "..", "shared", "">>, <<"e">>}

\* the directory the user owns under the full path
HasDirectory(w, username, full) ==
    \E i \in DOMAIN w.directories :
      /\ w.directories[i].username = username
      /\ Cat(w.directories[i].path, w.directories[i].name) = full

\* the canonical form of p: p when absolute, the current directory and p otherwise
CanonicalFor(w, username, p) ==
    IF p[1] = "" /\ Len(p) >= 2 THEN Canonical(p)
    ELSE Canonical(Cat(w.users[username].curr_dir, p))

\* "/", "/a/", "/a/b/", ... up to the path itself
Prefixes(full) == {SubSeq(full, 1, n) \o <<"">> : n \in 1..(Len(full) - 1)}

ProbeNames == {Str("d"), Str("e"), Str("shared"), Str("alice"), Str("bob"), Str(".."), EmptyStr}

RmdirOf(u, dirname) == Run(W, Call("rmdir", u, Token(u), NoBytes, dirname, FALSE, ""))

\* the table without its i-th row
WithoutRow(table, i) == SubSeq(table, 1, i - 1) \o SubSeq(table, i + 1, Len(table))

\* the Directory Entry is the root, /shared/ or a synthetic /shared/<owner>/
Protected(row) ==
    \/ row.path = EmptyStr
    \/ row.path = Slash /\ row.name = <<"shared", "">>
    \/ row.path = <<"", "shared", "">>

\* the tables and current directories are those of the state
NothingChanged(w) ==
    /\ w.directories = directories /\ w.files = files
    /\ w.shared = shared /\ w.blobs = blobs
    /\ DOMAIN w.users = DOMAIN users
    /\ \A u \in DOMAIN users : w.users[u].curr_dir = users[u].curr_dir

MkdirOf(u, dirname) == Run(W, Call("mkdir", u, Token(u), NoBytes, dirname, FALSE, ""))

DeleteacctOf(u) == Run(W, Call("deleteacct", u, Token(u), NoBytes, EmptyStr, FALSE, ""))

\* no row of the tables names the user
NoTraceOf(w, u) ==
    /\ u \notin DOMAIN w.users
    /\ \A i \in DOMAIN w.files : w.files[i].username # u
    /\ \A i \in DOMAIN w.directories : w.directories[i].username # u
    /\ \A i \in DOMAIN w.shared : w.shared[i].owner # u /\ w.shared[i].sharee # u

-----------------------------------------------------------------------------
(* Modifications *)

\* the bytes of a modification: those of the files uploaded so far and new ones
NewContents == Contents \cup {[data |-> "c", size |-> 1]}

ModifyOf(u, dest, b) == Run(W, Call("upload", u, Token(u), b, dest, TRUE, ""))

\* the checksums of the user's File Entries at the target
ChecksumsAt(w, u, t) ==
    {w.files[i].checksum : i \in {j \in DOMAIN w.files :
        /\ w.files[j].username = u
        /\ w.files[j].filename = t.filename
        /\ w.files[j].filepath = t.filepath}}

\* C25: an owner's upload with modify=true is rejected with no state change
\* when the new bytes have the checksum of the current File Entry; otherwise,
\* on success, the owner's File Entry and every Share Entry for that (owner,
\* filename, filepath) carry the new checksum, the new blob exists, and the
\* old blob exists afterwards exactly when some File Entry still references
\* the old checksum.
C25_OwnerModify ==
    \A u \in DOMAIN users, dest \in RmfileDests, b \in NewContents :
      LET t == Target(u, dest)
          r == ModifyOf(u, dest, b)
          new == makeFileChecksum(b) IN
      (~HasSharedPrefix(t.filepath) /\ ChecksumsAt(W, u, t) # {})
        => \A old \in ChecksumsAt(W, u, t) :
             /\ old = new => r.l.Err # "" /\ NothingChanged(r.w)
             /\ (old # new /\ r.l.Err = "")
                  => /\ ChecksumsAt(r.w, u, t) = {new}
                     /\ \A i \in DOMAIN r.w.shared :
                          (/\ r.w.shared[i].owner = u
                           /\ r.w.shared[i].filename = t.filename
                           /\ r.w.shared[i].filepath = t.filepath)
                            => r.w.shared[i].checksum = new
                     /\ new \in DOMAIN r.w.blobs
                     /\ old \in DOMAIN r.w.blobs
                          <=> \E j \in DOMAIN r.w.files : r.w.files[j].checksum = old

-----------------------------------------------------------------------------
(* A sharee's modify beside the owner's modify or chmodfile *)

\* the sharee whose modify is followed
Sharee == "bob"

InitModifyRace == InitWith(UserNames) /\ InitClients

\* the owner shares the file with the sharee, with no call in progress
QuietSharefile ==
    \E f \in FileNames, write_perms \in BOOLEAN :
      /\ Quiescent
      /\ Len(shared) < MaxShared
      /\ Serve(Call("sharefile", Owner, Token(Owner), NoBytes, f, write_perms, Sharee))

\* the sharee sends a modify of /shared/<owner>/<file>
BeginShareeModify ==
    \E f \in FileNames, b \in Contents :
      Begin("c2", Call("upload", Sharee, Token(Sharee), b, SharedPath(Owner, f), TRUE, ""))

\* the owner sends a modify of the file
BeginOwnerModify ==
    \E f \in FileNames, b \in Contents :
      Begin("c1", Call("upload", Owner, Token(Owner), b, f, TRUE, ""))

\* the owner sends a chmodfile of the file for the sharee
BeginChmodfile ==
    \E f \in FileNames, write_perms \in BOOLEAN :
      Begin("c1", Call("chmodfile", Owner, Token(Owner), NoBytes, f, write_perms, Sharee))

NextModifyRace ==
    \/ QuietUpload
    \/ QuietSharefile
    \/ BeginShareeModify
    \/ BeginOwnerModify
    \/ BeginChmodfile
    \/ Step

SpecModifyRace == InitModifyRace /\ [][NextModifyRace]_vars

\* every blob is referenced by a File Entry and every File Entry has its blob
BlobsAreTheReferenced ==
    /\ \A c \in DOMAIN blobs : \E j \in DOMAIN files : files[j].checksum = c
    /\ \A j \in DOMAIN files : files[j].checksum \in DOMAIN blobs

\* every Share Entry carries the checksum of the owner's File Entry
SharesCarryOwnerChecksum ==
    \A i \in DOMAIN shared :
      \E j \in DOMAIN files :
        /\ files[j].username = shared[i].owner
        /\ files[j].filename = shared[i].filename
        /\ files[j].filepath = shared[i].filepath
        /\ files[j].checksum = shared[i].checksum

\* C26: under every interleaving of a sharee's modify of a shared file with a
\* concurrent change of the file's checksum or a concurrent chmodfile, the
\* sharee's modify fails closed: it is applied completely or it is rejected
\* and leaves File Entries, Share Entries and blobs as the other call left
\* them, so that once both calls have returned every Share Entry carries the
\* checksum of the owner's File Entry, every File Entry has its blob and no
\* blob is left unreferenced.
C26_ShareeModifyFailsClosed ==
    Quiescent => BlobsAreTheReferenced /\ SharesCarryOwnerChecksum

-----------------------------------------------------------------------------
(* What cat returns after a sharee's modify *)

CatOf(w, u, dest) == Run(w, Call("cat", u, Token(u), NoBytes, dest, FALSE, ""))

\* the sharees of the owner's file in world w
ShareesOf(w, o, f, owner_path) ==
    {w.shared[i].sharee : i \in {j \in DOMAIN w.shared :
                                   /\ w.shared[j].owner = o
                                   /\ w.shared[j].filename = f
                                   /\ w.shared[j].filepath = owner_path}}

-----------------------------------------------------------------------------
(* Uploads and modifications near the per-user cap *)

MaxQuotaFiles == 6

\* the names of the owner's files, in the order they are uploaded
QuotaNames == [i \in 1..(MaxQuotaFiles + 1) |-> Str("f" \o ToString(i))]

\* the largest file the per-call ceiling lets through, with bytes of its own
\* for the i-th file, and a file of one byte
QuotaContents(i) ==
    {[data |-> "big" \o ToString(i), size |-> FileSizeLimit - 1], [data |-> "one", size |-> 1]}

InitQuota == InitWith(UserNames) /\ procs = <<>>

\* upload the next file to /
QuotaUpload ==
    \E b \in QuotaContents(Len(files) + 1) :
      /\ Len(files) < MaxQuotaFiles
      /\ Serve(Call("upload", Owner, Token(Owner), b, QuotaNames[Len(files) + 1], FALSE, ""))

QuotaModify ==
    \E i \in DOMAIN files :
      \E b \in QuotaContents(i) :
        Serve(Call("upload", Owner, Token(Owner), b, files[i].filename, TRUE, ""))

QuotaSharefile ==
    \E i \in DOMAIN files :
      /\ Len(shared) < MaxShared
      /\ Serve(Call("sharefile", Owner, Token(Owner), NoBytes, files[i].filename, TRUE, Sharee))

QuotaShareeModify ==
    \E i \in DOMAIN files :
      \E b \in QuotaContents(i) :
        Serve(Call("upload", Sharee, Token(Sharee), b,
                   SharedPath(Owner, files[i].filename), TRUE, ""))

NextQuota ==
    \/ QuotaUpload
    \/ QuotaModify
    \/ QuotaSharefile
    \/ QuotaShareeModify

SpecQuota == InitQuota /\ [][NextQuota]_vars

RECURSIVE SumBlobs(_, _)
SumBlobs(w, checksums) ==
    IF checksums = {} THEN 0
    ELSE LET c == CHOOSE c \in checksums : TRUE IN
         BlobSize(w, c) + SumBlobs(w, checksums \ {c})

\* the bytes of the blobs a user's own File Entries reference, a blob that
\* several of the File Entries reference counted once
OwnedBytes(username) ==
    SumBlobs(W, {files[i].checksum : i \in {j \in DOMAIN files : files[j].username = username}})

\* C28: after any sequence of uploads and modifications, by the user or by
\* sharees with write permission, the sum of the sizes of the blobs referenced
\* by a user's own File Entries never exceeds the cap of 28000 bytes, and the
\* files shared with a user do not count toward that user's sum.
C28_OwnedBytesWithinCap ==
    \A username \in DOMAIN users : OwnedBytes(username) <= UserSizeLimit

-----------------------------------------------------------------------------
(* The read-only shared subtree *)

\* absolute paths of a file whose directory is /shared/ or below it once the
\* '.' and '..' segments are resolved
SharedTargets ==
    {<<"", "shared", "f">>,
     <<"", "shared", "bob", "f">>,
     <<"", "shared", "alice", "f">>,
     <<"", ".", "shared", "bob", "f">>,
     <<"", "shared", ".", "alice", "f">>,
     <<"", "shared", "bob", ".", "f">>,
     <<"", "d", "..", "shared", "bob", "f">>,
     <<"", "d", "..", "shared", "f">>,
     <<"", "..", "shared", "alice", "f">>,
     <<"", "shared", "bob", "..", "alice", "f">>,
     <<"", "shared", "alice", "..", "f">>,
     <<"", "shared", "..", "shared", "bob", "f">>}

NewUploadOf(u, dest, b) == Run(W, Call("upload", u, Token(u), b, dest, FALSE, ""))

RejectedUnchanged(r) == r.l.Err # "" /\ NothingChanged(r.w)

\* C29: every mkdir, rmdir, rmfile and upload with modify=false whose target
\* directory is /shared/ or a directory below it is rejected and changes
\* nothing, whether the target is given through the current directory or as
\* an absolute path containing '.' or '..' segments.
C29_SharedSubtreeReadOnly ==
    \A u \in DOMAIN users :
      /\ HasSharedPrefix(users[u].curr_dir) =>
           /\ \A dirname \in ProbeNames :
                /\ RejectedUnchanged(MkdirOf(u, dirname))
                /\ RejectedUnchanged(RmdirOf(u, dirname))
           /\ \A f \in FileNames :
                /\ RejectedUnchanged(RmfileOf(u, f))
                /\ \A b \in NewContents : RejectedUnchanged(NewUploadOf(u, f, b))
      /\ \A dest \in SharedTargets :
           /\ RejectedUnchanged(RmfileOf(u, dest))
           /\ \A b \in NewContents : RejectedUnchanged(NewUploadOf(u, dest, b))


\* C30: under every interleaving of upload calls with modify=false by the
\* same user, the files table never holds two File Entries with the same
\* (username, filepath, filename).
C30_FileEntriesUnique ==
    \A i \in DOMAIN files, j \in DOMAIN files :
      (/\ files[i].username = files[j].username
       /\ files[i].filepath = files[j].filepath
       /\ files[i].filename = files[j].filename) => i = j

-----------------------------------------------------------------------------
(* getParentPathAndChildofDirectory on every path of at most MaxSegments segments *)

\* parent, child, err := getParentPathAndChildofDirectory(path)
GetParentPathAndChildofDirectory ==
    /\ procs[1].pc = "idle"
    /\ \E r \in {getParentPathAndChildofDirectory(procs[1].arg)} :
         procs' = <<[procs[1] EXCEPT !.pc = "done", !.Out = <<r.parent, r.child>>,
                                     !.Err = r.err]>>
    /\ UNCHANGED <<users, directories, files, shared, blobs, now>>

NextParent == GetParentPathAndChildofDirectory

SpecParent == InitPaths /\ [][NextParent]_vars

\* the call has returned parent and child for a path that is not root
SplitsAt(path, parent, child) ==
    /\ Cat(parent, child) = path
    /\ child = <<path[Len(path) - 1], "">>
    /\ EndsWithSlash(parent)

\* the cases of the empty path, of a path without closing slash and of root
ParentOfRootAndErrors ==
    procs[1].pc = "done" =>
      /\ (procs[1].arg = EmptyStr \/ ~EndsWithSlash(procs[1].arg)) => procs[1].Err # ""
      /\ procs[1].arg = Slash =>
           procs[1].Err = "" /\ procs[1].Out = <<EmptyStr, Slash>>

-----------------------------------------------------------------------------
(* File targets given as absolute paths with '.' and '..' segments *)

\* absolute paths of a file that pass through '.' or '..'
DottedDests ==
    {<<"", ".", "f">>,
     <<"", "d", "..", "f">>,
     <<"", "d", ".", "f">>,
     <<"", "d", "..", "shared", "f">>}

\* upload <file> to an absolute path with dot segments
UploadDotted ==
    \E u \in DOMAIN users, b \in Contents, dest \in DottedDests, modify \in BOOLEAN :
      /\ modify \/ Len(files) < MaxFiles
      /\ Serve(Call("upload", u, Token(u), b, dest, modify, ""))

RmfileDotted ==
    \E u \in DOMAIN users, dest \in DottedDests :
      Serve(Call("rmfile", u, Token(u), NoBytes, dest, FALSE, ""))

NextTree ==
    \/ Upload
    \/ UploadDotted
    \/ Rmfile
    \/ RmfileDotted
    \/ Mkdir
    \/ Rmdir
    \/ Cd
    \/ Deleteacct

SpecTree == Init /\ [][NextTree]_vars

NoDotSegment(path) == \A n \in DOMAIN path : path[n] \notin {".", ".."}

\* C32: in every state reachable when handlers run one at a time, every File
\* Entry's filepath is the canonical path (no '.' or '..' segment) of a
\* Directory Entry that currently exists for the same user, and every
\* Directory Entry other than root has a parent path that is an existing
\* Directory Entry of the same user.
C32_EntriesUnderExistingDirectories ==
    /\ \A i \in DOMAIN files :
         /\ NoDotSegment(files[i].filepath)
         /\ HasDirectory(W, files[i].username, files[i].filepath)
    /\ \A j \in DOMAIN directories :
         directories[j].path # EmptyStr =>
           HasDirectory(W, directories[j].username, directories[j].path)

-----------------------------------------------------------------------------
(* Who cat returns bytes to *)

CatDests(u) ==
    FileNames \cup {InDir(d, f) : d \in DirNames, f \in FileNames}
              \cup {SharedPath(o, f) : o \in DOMAIN users \ {u}, f \in FileNames}

OwnsFileAt(u, t) ==
    \E i \in DOMAIN files :
      /\ files[i].username = u
      /\ files[i].filepath = t.filepath
      /\ files[i].filename = t.filename

\* the target is /shared/<owner>/<file> and the owner shares the file with u
SharedWithAt(u, t) ==
    /\ Len(t.filepath) = 4 /\ HasSharedPrefix(t.filepath)
    /\ \E i \in DOMAIN shared :
         /\ shared[i].owner = t.filepath[3]
         /\ shared[i].filename = t.filename
         /\ shared[i].sharee = u

\* C33: cat returns the bytes of a file to a caller only if the caller owns
\* the File Entry named by the resolved path, or the path is
\* /shared/<owner>/<file> and a Share Entry (owner, file, caller) exists at
\* that moment; without the edge the cat of a former sharee fails even if its
\* current directory is still /shared/<owner>/.
C33_CatOnlyForOwnerOrSharee ==
    \A u \in DOMAIN users :
      \A dest \in CatDests(u) :
        CatOf(W, u, dest).l.Err = "" =>
          OwnsFileAt(u, Target(u, dest)) \/ SharedWithAt(u, Target(u, dest))

\* a former sharee still stands in /shared/<owner>/, the owner still has the
\* file and the edge is gone: cat by name fails, and the owner's cat succeeds
C33_Witness ==
    \E u \in DOMAIN users, o \in DOMAIN users, f \in FileNames :
      /\ u # o
      /\ users[u].curr_dir = <<"", "shared", o, "">>
      /\ \A i \in DOMAIN shared : ~(shared[i].owner = o /\ shared[i].sharee = u)
      /\ OwnsFileAt(o, [filepath |-> Slash, filename |-> f])
      /\ CatOf(W, o, <<"">> \o f).l.Err = ""
      /\ CatOf(W, u, f).l.Err # ""

-----------------------------------------------------------------------------
(* Who can change a user's session *)

\* the stored token hash, last-access time and current directory of the caller
SessionOf(w) ==
    IF Caller \in DOMAIN w.users
    THEN <<w.users[Caller].session_token, w.users[Caller].session_token_last_access_time,
           w.users[Caller].curr_dir>>
    ELSE <<>>

\* the caller has a session that has not expired
HasLiveSession ==
    /\ Caller \in DOMAIN users
    /\ users[Caller].session_token # NullBlob
    /\ users[Caller].session_token_last_access_time # NullInt
    /\ now <= users[Caller].session_token_last_access_time + time_diff

\* a call of another user, with that user's token, that names the caller
OtherCall(op) ==
    Call(op, "bob", Token("bob"),
         IF op = "upload" THEN [data |-> "a", size |-> 1] ELSE NoBytes,
         IF op \in {"cd", "mkdir", "rmdir"} THEN Str("d") ELSE Str("f"),
         FALSE, Caller)

\* C34: a user's stored session token, last-access time and current directory
\* are changed only by a login with that user's password or by a call that
\* presents that user's valid, unexpired token; a call that presents no valid
\* token for the user cannot end the user's session.
C34_SessionChangedOnlyByHolder ==
    HasLiveSession =>
      /\ \A op \in TokenOps, session_token \in PresentedTokens :
           ~bcryptMatches(users[Caller].session_token, session_token) =>
             SessionOf(Run(W, SessionCall(op, session_token)).w) = SessionOf(W)
      /\ \A op \in TokenOps : SessionOf(Run(W, OtherCall(op)).w) = SessionOf(W)
      /\ \A session_token \in SessionTokens :
           SessionOf(Run(W, Validatelogin(Caller, "Passw0rd-0", session_token)).w)
             = SessionOf(W)
      /\ SessionOf(Run(W, PreCall("logout", "", Caller, "", "")).w) = SessionOf(W)

-----------------------------------------------------------------------------
(* One valid token per user *)

\* a login of the caller with its password, drawing session_token
LoginOf(w, session_token) == Run(w, Validatelogin(Caller, PasswordOf(Caller), session_token))

\* C35: at most one session token is valid per user at any time: after a
\* second successful login, every call presenting the token returned by the
\* first login is rejected.
C35_SecondLoginRevokesFirstToken ==
    \A first \in PresentedTokens, second \in SessionTokens :
      (first # second /\ SessionLive(first) /\ LoginOf(W, second).l.Err = "") =>
        /\ LoginOf(W, second).l.session_token = second
        /\ \A op \in TokenOps :
             /\ Rejected(Run(LoginOf(W, second).w, SessionCall(op, first)))
             /\ Run(LoginOf(W, second).w, SessionCall(op, second)).l.Err # "Incorrect password."

\* a second login has replaced the token of the first: the session is live
\* under the second token, a call with the first is rejected, and a third
\* login would revoke the second in turn
C35_Witness ==
    \E second \in SessionTokens :
      /\ second # Token(Caller)
      /\ SessionLive(second)
      /\ Rejected(Run(W, SessionCall("ls", Token(Caller))))
      /\ ~Rejected(Run(W, SessionCall("ls", second)))
      /\ LoginOf(W, second).l.Err = ""


-----------------------------------------------------------------------------
(* A wrong token on a live session *)

\* a file at the per-call ceiling, turned down before the token is looked at
TooBig == [data |-> "big", size |-> FileSizeLimit]

\* the calls that present session_token: each handler, and an upload of too many bytes
WrongTokenCalls(session_token) ==
    {SessionCall(op, session_token) : op \in TokenOps}
      \cup {Call("upload", Caller, session_token, TooBig, Str("f"), FALSE, "")}

\* C36: a call to a token-taking handler that presents a wrong token while
\* the user's session is not expired is rejected and leaves the stored token
\* hash, the last-access time, the current directory and all File, Directory
\* and Share Entries unchanged.
C36_WrongTokenChangesNothing ==
    \A session_token \in PresentedTokens :
      (HasLiveSession /\ ~bcryptMatches(users[Caller].session_token, session_token)) =>
        \A call \in WrongTokenCalls(session_token) :
          /\ Run(W, call).l.Err # ""
          /\ SessionOf(Run(W, call).w) = SessionOf(W)
          /\ Run(W, call).w.files = files
          /\ Run(W, call).w.directories = directories
          /\ Run(W, call).w.shared = shared

\* time has passed since the last successful call, the session is still live,
\* the caller has a file, and a call with the session's token would refresh
\* the last-access time while a call with another token is rejected
C36_Witness ==
    /\ HasLiveSession
    /\ now > users[Caller].session_token_last_access_time
    /\ files # <<>>
    /\ \E good \in PresentedTokens, wrong \in PresentedTokens :
         /\ SessionLive(good)
         /\ ~bcryptMatches(users[Caller].session_token, wrong)
         /\ SessionOf(Run(W, SessionCall("ls", good)).w) # SessionOf(W)
         /\ Run(W, SessionCall("rmfile", wrong)).l.Err = "Incorrect password."

-----------------------------------------------------------------------------
(* The current directory of a live session *)

\* the user has a stored token whose last access is at most time_diff ago
LiveSessionOf(u) ==
    /\ users[u].session_token # NullBlob
    /\ users[u].session_token_last_access_time # NullInt
    /\ now <= users[u].session_token_last_access_time + time_diff

\* C37: for every user with a live session, the stored current directory is
\* always the path of a Directory Entry that currently exists for that user,
\* after any sequence of cd, mkdir, rmdir, sharefile and unsharefile calls by
\* that user and by other users.
C37_CurrDirExists ==
    \A u \in DOMAIN users :
      LiveSessionOf(u) => HasDirectory(W, u, users[u].curr_dir)

-----------------------------------------------------------------------------
(* An owner who shares with a user who is registering *)

MaxTreeEntries == 7

\* the user who registers while the owner shares
Newcomer == "bob"

InitNewcomer == InitWith(<<Owner>>) /\ procs = <<>>

OwnerUploadsFile ==
    \E b \in Contents, f \in FileNames :
      /\ Len(files) < MaxFiles
      /\ Serve(Call("upload", Owner, Token(Owner), b, f, FALSE, ""))

ShareWithNewcomer ==
    \E f \in FileNames, write_perms \in BOOLEAN :
      /\ Len(shared) < MaxShared
      /\ Len(directories) < MaxTreeEntries
      /\ Serve(Call("sharefile", Owner, Token(Owner), NoBytes, f, write_perms, Newcomer))

NewcomerEmailregister ==
    \E password \in Passwords, ver \in Codes, salt \in Salts :
      Serve(Emailregister(EmailOf(Newcomer), Newcomer, password, salt, ver))

NewcomerValidateregister ==
    \E password \in Passwords, ver_code \in Codes :
      /\ Len(directories) + 2 <= MaxTreeEntries
      /\ Serve(Validateregister(EmailOf(Newcomer), Newcomer, password, ver_code, ""))

NextNewcomer ==
    \/ OwnerUploadsFile
    \/ ShareWithNewcomer
    \/ NewcomerEmailregister
    \/ NewcomerValidateregister
    \/ Tick

SpecNewcomer == InitNewcomer /\ [][NextNewcomer]_vars

\* the user has a row and has been through the code check
Verified(username) == username \in DOMAIN users /\ users[username].ver_code = NullBlob

\* C38: in every reachable state, the owner and the sharee of every Share
\* Entry, and the username of every File Entry and Directory Entry, are
\* usernames of existing user rows, and the sharee of every Share Entry is an
\* active (verified) user.
C38_EntriesNameExistingUsers ==
    /\ \A i \in DOMAIN shared :
         /\ shared[i].owner \in DOMAIN users
         /\ shared[i].sharee \in DOMAIN users
         /\ Verified(shared[i].sharee)
    /\ \A i \in DOMAIN files : files[i].username \in DOMAIN users
    /\ \A i \in DOMAIN directories : directories[i].username \in DOMAIN users

-----------------------------------------------------------------------------
(* Registration calls that name an active user *)

\* the user has a row and has been through validateregister
ActiveRow(username) ==
    /\ username \in DOMAIN users
    /\ users[username].ver_code = NullBlob
    /\ users[username].ver_code_creation_time = NullInt
    /\ Active(W, username)

\* the row of the user is in w as it is now
RowKept(w, username) == username \in DOMAIN w.users /\ w.users[username] = users[username]

\* C39: once a user is active, its user row is removed only by a successful
\* deleteacct: no emailregister or validateregister call, with any arguments,
\* removes or alters the row of an active user.
C39_ActiveRowSurvivesRegistration ==
    \A u \in DOMAIN users :
      ActiveRow(u) =>
        \A email \in Emails, username \in RegNames, password \in Passwords :
          /\ \A ver \in Codes, salt \in Salts :
               RowKept(Run(W, Emailregister(email, username, password, salt, ver)).w, u)
          /\ \A ver_code \in Codes, fault \in Faults :
               RowKept(Run(W, Validateregister(email, username, password, ver_code, fault)).w, u)

-----------------------------------------------------------------------------
(* Who validatelogin gives a token to *)

\* the user has a row that still holds a verification code
Pending(username) == username \in DOMAIN users /\ users[username].ver_code # NullBlob

\* the password is not the one stored for the user
WrongPassword(username, password) ==
    /\ username \in DOMAIN users
    /\ ~bcryptMatches(users[username].password, password \o users[username].salt)

\* the login is turned down and hands out no token
NoToken(r) == r.l.Err # "" /\ r.l.session_token = ""

\* C40: validatelogin returns a session token only for an active user and the
\* matching password: in every reachable state, a login for a pending
\* (unverified) user or with a wrong password returns an empty token and an
\* error, and a wrong-password login leaves the stored session unchanged.
C40_LoginOnlyActiveWithPassword ==
    \A username \in RegNames, password \in Passwords, session_token \in SessionTokens :
      /\ (Pending(username) \/ WrongPassword(username, password)
            \/ username \notin DOMAIN users) =>
           NoToken(Run(W, Validatelogin(username, password, session_token)))
      /\ WrongPassword(username, password) =>
           Run(W, Validatelogin(username, password, session_token)).w.users = users
====
